---- MODULE Spec2Model ----
(***************************************************************************)
(* Conversation-tree engine and turn orchestrator of Ge-Brain.             *)
(*                                                                         *)
(* Ids produced by crypto.randomUUID() are modelled as the integers        *)
(* 1, 2, 3, ... handed out by the counter nextId; NULL stands for the      *)
(* JavaScript null and Ghost for an id that is a key of no mapping.        *)
(* An optional field is None (undefined / absent) or Some(v).  Text is a   *)
(* sequence of tokens, so that concatenation and replacement differ.       *)
(***************************************************************************)
EXTENDS Integers, Sequences, FiniteSets, TLC

\* ------------------------------------------------------------------ bounds
MaxNodes == 4
MaxChunks == 2
MaxAppend == 4
MaxThreadIds == 3
MaxWalk == 4
MaxNavNodes == 5
MaxReads == 3
MaxTools == 2
MaxLegacy == 3

\* ------------------------------------------------------------- vocabulary
NULL == 0
Ghost == -1

None == <<>>
Some(v) == <<v>>
IsSome(o) == Len(o) = 1
Val(o) == o[1]

Last(s) == s[Len(s)]
IndexOf(s, x) == IF \E i \in 1..Len(s) : s[i] = x
                 THEN CHOOSE i \in 1..Len(s) : s[i] = x /\ \A j \in 1..(i-1) : s[j] # x
                 ELSE -1

VARIABLES messageMap, headId, config, isLoading, pc, modelMsgId, currentMap,
          currentHead, historyForApi, accumulatedText, currentToolCalls,
          executionQueue, results, nextId, chunkLog, chunkCount, walk, navCall,
          download, stream, request

vars == <<messageMap, headId, config, isLoading, pc, modelMsgId, currentMap,
          currentHead, historyForApi, accumulatedText, currentToolCalls,
          executionQueue, results, nextId, chunkLog, chunkCount, walk, navCall,
          download, stream, request>>

turnLocals == <<pc, modelMsgId, currentMap, currentHead, historyForApi,
                accumulatedText, currentToolCalls, executionQueue, results, chunkLog>>

\* ---------------------------------------------------------------- messages
Message(id, role, content, toolCalls, toolResults, parentId) ==
    [id |-> id, role |-> role, content |-> content, toolCalls |-> toolCalls,
     toolResults |-> toolResults, parentId |-> parentId, childrenIds |-> <<>>]

EmptyMap == <<>>

\* faulty appendToTree: the new child is put in front of the parent's children
appendToTreeFront(parentId, newMessage, updatesMap) ==
    LET updatedMap == [k \in DOMAIN updatesMap \cup {newMessage.id} |->
                          IF k = newMessage.id THEN newMessage ELSE updatesMap[k]]
    IN IF parentId # NULL /\ parentId \in DOMAIN updatedMap
       THEN [updatedMap EXCEPT ![parentId].childrenIds = <<newMessage.id>> \o @]
       ELSE updatedMap

appendToTree(parentId, newMessage, updatesMap) ==
    LET updatedMap == [k \in DOMAIN updatesMap \cup {newMessage.id} |->
                          IF k = newMessage.id THEN newMessage ELSE updatesMap[k]]
    IN IF parentId # NULL /\ parentId \in DOMAIN updatedMap
       THEN [updatedMap EXCEPT ![parentId].childrenIds = Append(@, newMessage.id)]
       ELSE updatedMap

\* ------------------------------------------------------------- getThread
\* The state of the walk: the thread collected so far, the id to visit next,
\* whether the function has returned, and whether it raised.
GetThreadEnter(map, head) ==
    IF head = NULL \/ head \notin DOMAIN map
    THEN [thread |-> <<>>, currentId |-> NULL, done |-> TRUE, threw |-> FALSE]
    ELSE [thread |-> <<>>, currentId |-> head, done |-> FALSE, threw |-> FALSE]

\* faulty getThread: a missing node is dereferenced instead of ending the walk
GetThreadIterDeref(map, st) ==
    IF st.currentId = NULL
    THEN [st EXCEPT !.done = TRUE]
    ELSE IF st.currentId \notin DOMAIN map
         THEN [st EXCEPT !.done = TRUE, !.threw = TRUE, !.thread = <<>>]
         ELSE [st EXCEPT !.thread = <<map[st.currentId]>> \o @,
                         !.currentId = map[st.currentId].parentId]

\* faulty getThread: push instead of unshift
GetThreadIterPush(map, st) ==
    IF st.currentId = NULL
    THEN [st EXCEPT !.done = TRUE]
    ELSE IF st.currentId \notin DOMAIN map
         THEN [st EXCEPT !.done = TRUE]
         ELSE [st EXCEPT !.thread = Append(@, map[st.currentId]),
                         !.currentId = map[st.currentId].parentId]

\* One evaluation of the while condition and, if it holds, of the loop body.
GetThreadIter(map, st) ==
    IF st.currentId = NULL
    THEN [st EXCEPT !.done = TRUE]
    ELSE IF st.currentId \notin DOMAIN map
         THEN [st EXCEPT !.done = TRUE]
         ELSE [st EXCEPT !.thread = <<map[st.currentId]>> \o @,
                         !.currentId = map[st.currentId].parentId]

RECURSIVE GetThreadRun(_, _)
GetThreadRun(map, st) ==
    IF st.done THEN st.thread ELSE GetThreadRun(map, GetThreadIter(map, st))

getThread(map, head) == GetThreadRun(map, GetThreadEnter(map, head))

NoCall == [msgId |-> NULL, direction |-> ""]

NoWalk == [thread |-> <<>>, currentId |-> NULL, done |-> TRUE, threw |-> FALSE]

\* No provider stream is being read in this specification
NoStream == [provider |-> "none"]

\* No request has been built in this specification
NoRequest == [built |-> FALSE]

\* No session file has been exported yet.  made: a file was downloaded; picked:
\* the last operation was an import of that file; messageMap and headId record
\* the state the file was exported from.
NoDownload ==
    [made |-> FALSE, picked |-> FALSE, content |-> <<>>, messageMap |-> <<>>, headId |-> NULL]

\* ------------------------------------------------------------------ config
\* AppConfig reduced to what the orchestrator reads: the active model id, the
\* configured models (id and apiKey) and the registered tools.
Models == [ defaultGemini |-> [apiKey |-> ""], custom |-> [apiKey |-> "key"] ]
ModelIds == {"defaultGemini", "custom"}

UserTool(name, active, autoExecute, implementation) ==
    [name |-> name, active |-> active, autoExecute |-> autoExecute,
     implementation |-> implementation]

ToolRegistries ==
    { << UserTool("t1", TRUE, TRUE, "src"), UserTool("t2", TRUE, TRUE, "src") >>,
      << UserTool("t1", FALSE, TRUE, "src"), UserTool("t2", TRUE, TRUE, "") >>,
      << UserTool("t1", TRUE, FALSE, "src") >>,
      << UserTool("t1", TRUE, TRUE, "src"), UserTool("t2", TRUE, FALSE, "src") >> }

Configs == [activeModelId : ModelIds \cup {"missing"}, tools : ToolRegistries]

HasActiveModel(cfg) == cfg.activeModelId \in ModelIds
HasApiKey(cfg) == HasActiveModel(cfg) /\ Models[cfg.activeModelId].apiKey # ""

\* config.tools.find(t => t.definition.name === name): index of the first match, 0 if none
FindTool(cfg, name) ==
    IF \E i \in 1..Len(cfg.tools) : cfg.tools[i].name = name
    THEN CHOOSE i \in 1..Len(cfg.tools) :
            cfg.tools[i].name = name /\ \A j \in 1..(i-1) : cfg.tools[j].name # name
    ELSE 0

\* the filter building executionQueue
Queued(cfg, tc) ==
    LET i == FindTool(cfg, tc.name)
    IN i # 0 /\ cfg.tools[i].autoExecute /\ cfg.tools[i].implementation # ""

\* ------------------------------------------------------------------ stream
ToolCall(id, name) == [id |-> id, name |-> name]
S1 == << ToolCall("c1", "t1") >>
S12 == << ToolCall("c1", "t1"), ToolCall("c2", "t2") >>

StreamChunk(textDelta, toolCalls) == [textDelta |-> textDelta, toolCalls |-> toolCalls]

Chunks ==
    { StreamChunk(Some("a"), None), StreamChunk(None, Some(S1)),
      StreamChunk(Some("b"), Some(S12)) }

StreamErrors == {"Failed to fetch"}

\* `Error: ${error.message || 'Unknown error occurred'}`
ErrorMessage(message) ==
    <<"Error: ", IF message # "" THEN message ELSE "Unknown error occurred">>

\* ---------------------------------------------------------- tool execution
StrVal(text) == [t |-> "string", v |-> text]
ObjVal(text) == [t |-> "object", v |-> text]
Undefined == [t |-> "undefined", v |-> <<>>]

\* What a thrown value is: an Error carrying a message, any other value (a
\* string here), or null
ErrorVal(message) == [t |-> "Error", v |-> message]
NullVal == [t |-> "null", v |-> <<>>]

\* What running a tool's source can do, one outcome for each path of the
\* execution loop: return a value, throw an Error, throw null
ToolOutcomes == { [ok |-> TRUE, value |-> StrVal(<<"sunny">>)],
                  [ok |-> FALSE, value |-> ErrorVal(<<"boom">>)],
                  [ok |-> FALSE, value |-> NullVal] }

\* The same with every kind of returned and thrown value: a string that reads
\* like an object, an object, no value at all, a thrown string
AllToolOutcomes ==
    ToolOutcomes \cup { [ok |-> TRUE, value |-> StrVal(<<"{}">>)],
                        [ok |-> TRUE, value |-> ObjVal(<<"{}">>)],
                        [ok |-> TRUE, value |-> Undefined],
                        [ok |-> FALSE, value |-> StrVal(<<"boom">>)] }

\* JSON.stringify: a string is quoted, an object is serialised, and undefined
\* gives undefined, not a string
JSONstringify(val) ==
    IF val.t = "string" THEN StrVal(<<"\"">> \o val.v \o <<"\"">>)
    ELSE IF val.t = "object" THEN StrVal(val.v)
    ELSE Undefined

\* e.message: the message of an Error, undefined for any other object or
\* primitive; reading it from null raises a TypeError
ThrowsOnMessage(e) == e.t = "null"

MessageOf(e) == IF e.t = "Error" THEN StrVal(e.v) ELSE Undefined

\* { error: e.message }: a property whose value is undefined is left out
ErrorObject(message) ==
    IF message.t = "undefined" THEN ObjVal(<<"{}">>)
    ELSE ObjVal(<<"{\"error\":">> \o JSONstringify(message).v \o <<"}">>)

ToolResult(callId, result) == [callId |-> callId, result |-> result]

\* ------------------------------------------------------------ initial state
InitLocals ==
    /\ pc = "idle"
    /\ modelMsgId = NULL
    /\ currentMap = EmptyMap
    /\ currentHead = NULL
    /\ historyForApi = <<>>
    /\ accumulatedText = <<>>
    /\ currentToolCalls = <<>>
    /\ executionQueue = <<>>
    /\ results = <<>>
    /\ chunkLog = <<>>

Init ==
    /\ messageMap = EmptyMap
    /\ headId = NULL
    /\ config \in Configs
    /\ isLoading = FALSE
    /\ InitLocals
    /\ nextId = 1
    /\ chunkCount = 0
    /\ navCall = NoCall
    /\ walk = NoWalk
    /\ download = NoDownload
    /\ stream = NoStream
    /\ request = NoRequest

\* ------------------------------------------------------- turn orchestrator
\* updateState(newMap, newHeadId)
updateState(newMap, newHeadId) ==
    /\ messageMap' = newMap
    /\ headId' = newHeadId

ResetLocals ==
    /\ pc' = "idle"
    /\ modelMsgId' = NULL
    /\ currentMap' = EmptyMap
    /\ currentHead' = NULL
    /\ historyForApi' = <<>>
    /\ accumulatedText' = <<>>
    /\ currentToolCalls' = <<>>
    /\ executionQueue' = <<>>
    /\ results' = <<>>
    /\ chunkLog' = <<>>

\* finally { setIsLoading(false) }: the turn, and every turn awaiting it, returns
Finally ==
    /\ isLoading' = FALSE
    /\ ResetLocals

\* faulty entry: the placeholder node is kept local and not published
processConversationTurnUnpublished(startMap, startHeadId, id) ==
    LET initialModelMsg == Message(id, "model", Some(<<>>), Some(<<>>), None, startHeadId)
        map == appendToTree(startHeadId, initialModelMsg, startMap)
    IN /\ isLoading' = TRUE
       /\ modelMsgId' = id
       /\ currentMap' = map
       /\ currentHead' = id
       /\ updateState(startMap, startHeadId)
       /\ historyForApi' = getThread(map, startHeadId)
       /\ accumulatedText' = <<>>
       /\ currentToolCalls' = <<>>
       /\ executionQueue' = <<>>
       /\ results' = <<>>
       /\ chunkLog' = <<>>
       /\ pc' = "open"

\* faulty entry: the history is projected from the new head, pending node included
processConversationTurnOwnNode(startMap, startHeadId, id) ==
    LET initialModelMsg == Message(id, "model", Some(<<>>), Some(<<>>), None, startHeadId)
        map == appendToTree(startHeadId, initialModelMsg, startMap)
    IN /\ isLoading' = TRUE
       /\ modelMsgId' = id
       /\ currentMap' = map
       /\ currentHead' = id
       /\ updateState(map, id)
       /\ historyForApi' = getThread(map, id)
       /\ accumulatedText' = <<>>
       /\ currentToolCalls' = <<>>
       /\ executionQueue' = <<>>
       /\ results' = <<>>
       /\ chunkLog' = <<>>
       /\ pc' = "open"

\* Entry of processConversationTurn up to the await of sendMessageStream:
\* the placeholder node is appended under startHeadId and published as head.
processConversationTurn(startMap, startHeadId, id) ==
    LET initialModelMsg == Message(id, "model", Some(<<>>), Some(<<>>), None, startHeadId)
        map == appendToTree(startHeadId, initialModelMsg, startMap)
    IN /\ isLoading' = TRUE
       /\ modelMsgId' = id
       /\ currentMap' = map
       /\ currentHead' = id
       /\ updateState(map, id)
       /\ historyForApi' = getThread(map, startHeadId)
       /\ accumulatedText' = <<>>
       /\ currentToolCalls' = <<>>
       /\ executionQueue' = <<>>
       /\ results' = <<>>
       /\ chunkLog' = <<>>
       /\ pc' = "open"

\* faulty catch: the error text is not written into the pending node
CatchKeepContent(message) ==
    /\ updateState(currentMap, currentHead)
    /\ Finally
    /\ UNCHANGED <<config, nextId, chunkCount, walk, navCall, download, stream, request>>

\* faulty catch: the error text is written into the message the turn answers
CatchOnParent(message) ==
    LET p == currentMap[modelMsgId].parentId
        map == [currentMap EXCEPT ![p].content = Some(ErrorMessage(message))]
    IN /\ updateState(map, currentHead)
       /\ Finally
       /\ UNCHANGED <<config, nextId, chunkCount, walk, navCall, download, stream, request>>

\* catch (error) { ... } finally { ... }
Catch(message) ==
    LET map == [currentMap EXCEPT ![modelMsgId].content = Some(ErrorMessage(message))]
    IN /\ updateState(map, currentHead)
       /\ Finally
       /\ UNCHANGED <<config, nextId, chunkCount, walk, navCall, download, stream, request>>

\* sendMessageStream: the configuration checks made before a streamer is chosen
OpenStream ==
    /\ pc = "open"
    /\ IF ~HasActiveModel(config) THEN Catch("No active model selected.")
       ELSE IF ~HasApiKey(config) THEN Catch("API Key is missing for the selected model.")
       ELSE /\ pc' = "streaming"
            /\ UNCHANGED <<messageMap, headId, config, isLoading, modelMsgId, currentMap,
                           currentHead, historyForApi, accumulatedText, currentToolCalls,
                           executionQueue, results, nextId, chunkLog, chunkCount, walk, navCall, download, stream, request>>

\* if (chunk.toolCalls) currentToolCalls = chunk.toolCalls
FoldToolCalls(current, chunk) ==
    IF IsSome(chunk.toolCalls) THEN Val(chunk.toolCalls) ELSE current

\* faulty text fold: the delta is put in front of the text
FoldTextPrepend(text, chunk) ==
    IF IsSome(chunk.textDelta) THEN <<Val(chunk.textDelta)>> \o text ELSE text

\* if (chunk.textDelta) accumulatedText += chunk.textDelta
FoldText(text, chunk) ==
    IF IsSome(chunk.textDelta) THEN Append(text, Val(chunk.textDelta)) ELSE text

\* One iteration of `for await (const chunk of stream)`
FoldChunk(chunk) ==
    /\ pc = "streaming"
    /\ chunkCount < MaxChunks
    /\ LET text == FoldText(accumulatedText, chunk)
           calls == FoldToolCalls(currentToolCalls, chunk)
           map == [currentMap EXCEPT ![modelMsgId].content = Some(text),
                                     ![modelMsgId].toolCalls =
                                         IF Len(calls) > 0 THEN Some(calls) ELSE None]
       IN /\ accumulatedText' = text
          /\ currentToolCalls' = calls
          /\ currentMap' = map
          /\ updateState(map, currentHead)
    /\ chunkLog' = Append(chunkLog, chunk)
    /\ chunkCount' = chunkCount + 1
    /\ UNCHANGED <<config, isLoading, pc, modelMsgId, currentHead, historyForApi,
                   executionQueue, results, nextId, walk, navCall, download, stream, request>>

\* faulty failure path: the calls folded before the failure are still dispatched
StreamThrowThenDispatch(message) ==
    /\ pc = "streaming"
    /\ LET queue == SelectSeq(currentToolCalls, LAMBDA tc : Queued(config, tc))
       IN IF Len(queue) > 0
          THEN /\ pc' = "executing"
               /\ executionQueue' = queue
               /\ results' = <<>>
               /\ UNCHANGED <<messageMap, headId, config, isLoading, modelMsgId, currentMap,
                              currentHead, historyForApi, accumulatedText, currentToolCalls,
                              nextId, chunkLog, chunkCount, walk, navCall, download, stream, request>>
          ELSE Catch(message)

\* The stream, or the request behind it, throws
StreamThrow(message) ==
    /\ pc = "streaming"
    /\ Catch(message)

\* finalMsg.toolCalls, empty when absent
CallsOf(msg) == IF IsSome(msg.toolCalls) THEN Val(msg.toolCalls) ELSE <<>>

\* The stream is exhausted: build executionQueue
StreamEnd ==
    /\ pc = "streaming"
    /\ LET finalMsg == currentMap[modelMsgId]
           queue == SelectSeq(CallsOf(finalMsg), LAMBDA tc : Queued(config, tc))
       IN IF Len(queue) > 0
          THEN /\ pc' = "executing"
               /\ executionQueue' = queue
               /\ results' = <<>>
               /\ UNCHANGED <<messageMap, headId, config, isLoading, modelMsgId, currentMap,
                              currentHead, historyForApi, accumulatedText, currentToolCalls,
                              nextId, chunkLog, chunkCount, walk, navCall, download, stream, request>>
          ELSE /\ Finally
               /\ UNCHANGED <<messageMap, headId, config, nextId, chunkCount, walk, navCall, download, stream, request>>

\* faulty continuation test: continue whenever a tool node was appended
ContinueTurnAlways(res, finalMsg) == Len(res) > 0

\* results.length === finalMsg.toolCalls.length
ContinueTurn(res, finalMsg) == Len(res) = Len(CallsOf(finalMsg))

\* faulty loop body: the new result is put in front of the collected ones
ExecToolPrepend(outcome) ==
    /\ pc = "executing"
    /\ executionQueue # <<>>
    /\ LET item == Head(executionQueue)
           result == IF outcome.ok THEN JSONstringify(outcome.value)
                     ELSE JSONstringify(ErrorObject(MessageOf(outcome.value)))
           res == <<ToolResult(item.id, result)>> \o results
           finalMsg == currentMap[modelMsgId]
       IN IF ~outcome.ok /\ ThrowsOnMessage(outcome.value)
          THEN Catch("Cannot read properties of null (reading 'message')")
          ELSE IF Len(executionQueue) > 1
               THEN /\ executionQueue' = Tail(executionQueue)
                    /\ results' = res
                    /\ UNCHANGED <<messageMap, headId, config, isLoading, pc, modelMsgId,
                                   currentMap, currentHead, historyForApi, accumulatedText,
                                   currentToolCalls, nextId, chunkLog, chunkCount, walk, navCall, download, stream, request>>
               ELSE LET toolMsgId == nextId
                        toolMsg == Message(toolMsgId, "tool", None, None, Some(res), currentHead)
                        map == appendToTree(currentHead, toolMsg, currentMap)
                    IN IF ContinueTurn(res, finalMsg)
                       THEN /\ nextId + 1 <= MaxNodes
                            /\ processConversationTurn(map, toolMsgId, nextId + 1)
                            /\ nextId' = nextId + 2
                            /\ UNCHANGED <<config, chunkCount, walk, navCall, download, stream, request>>
                       ELSE /\ nextId <= MaxNodes
                            /\ updateState(map, toolMsgId)
                            /\ Finally
                            /\ nextId' = nextId + 1
                            /\ UNCHANGED <<config, chunkCount, walk, navCall, download, stream, request>>

\* One iteration of `for (const item of executionQueue)`; after the last one the
\* tool node is appended and the turn continues or returns.  A thrown null makes
\* the inner catch itself throw, which the catch of the turn receives.
ExecTool(outcome) ==
    /\ pc = "executing"
    /\ executionQueue # <<>>
    /\ LET item == Head(executionQueue)
           result == IF outcome.ok THEN JSONstringify(outcome.value)
                     ELSE JSONstringify(ErrorObject(MessageOf(outcome.value)))
           res == Append(results, ToolResult(item.id, result))
           finalMsg == currentMap[modelMsgId]
       IN IF ~outcome.ok /\ ThrowsOnMessage(outcome.value)
          THEN Catch("Cannot read properties of null (reading 'message')")
          ELSE IF Len(executionQueue) > 1
               THEN /\ executionQueue' = Tail(executionQueue)
                    /\ results' = res
                    /\ UNCHANGED <<messageMap, headId, config, isLoading, pc, modelMsgId,
                                   currentMap, currentHead, historyForApi, accumulatedText,
                                   currentToolCalls, nextId, chunkLog, chunkCount, walk, navCall, download, stream, request>>
               ELSE LET toolMsgId == nextId
                        toolMsg == Message(toolMsgId, "tool", None, None, Some(res), currentHead)
                        map == appendToTree(currentHead, toolMsg, currentMap)
                    IN IF ContinueTurn(res, finalMsg)
                       THEN /\ nextId + 1 <= MaxNodes
                            /\ processConversationTurn(map, toolMsgId, nextId + 1)
                            /\ nextId' = nextId + 2
                            /\ UNCHANGED <<config, chunkCount, walk, navCall, download, stream, request>>
                       ELSE /\ nextId <= MaxNodes
                            /\ updateState(map, toolMsgId)
                            /\ Finally
                            /\ nextId' = nextId + 1
                            /\ UNCHANGED <<config, chunkCount, walk, navCall, download, stream, request>>

\* ------------------------------------------------------------ UI handlers
\* The thread rendered from the published state (App: currentThread)
currentThread == getThread(messageMap, headId)

\* isAnswered: the next message of the thread is a tool message holding a result for the call
IsAnswered(thread, i, tc) ==
    /\ i + 1 <= Len(thread)
    /\ thread[i + 1].role = "tool"
    /\ IsSome(thread[i + 1].toolResults)
    /\ \E k \in 1..Len(Val(thread[i + 1].toolResults)) :
          Val(thread[i + 1].toolResults)[k].callId = tc.id

\* The call ids for which a ToolExecutor (manual submission form) is rendered
PendingCallIds ==
    LET thread == currentThread
    IN { CallsOf(thread[i])[k].id :
            <<i, k>> \in { p \in (1..Len(thread)) \X (1..2) :
                              /\ thread[p[1]].role = "model"
                              /\ p[2] <= Len(CallsOf(thread[p[1]]))
                              /\ ~IsAnswered(thread, p[1], CallsOf(thread[p[1]])[p[2]]) } }

\* The model messages on which the Regenerate button is rendered
RegenerableIds ==
    LET thread == currentThread
    IN { thread[i].id : i \in { j \in 1..Len(thread) : thread[j].role = "model" } }

\* The messages of the rendered thread, which carry the branch buttons
NavigableIds ==
    LET thread == currentThread
    IN { thread[i].id : i \in 1..Len(thread) }

\* handleSend, user mode, with a non-blank input
HandleSend ==
    IF isLoading THEN UNCHANGED vars
    ELSE IF ~HasApiKey(config) THEN UNCHANGED vars
    ELSE /\ nextId + 1 <= MaxNodes
         /\ LET newMessage == Message(nextId, "user", Some(<<"hi">>), None, None, headId)
                nextMap == appendToTree(headId, newMessage, messageMap)
            IN processConversationTurn(nextMap, newMessage.id, nextId + 1)
         /\ nextId' = nextId + 2
         /\ UNCHANGED <<config, chunkCount, walk, navCall, download, stream, request>>

\* faulty handleToolSubmit: the isLoading guard is missing
HandleToolSubmitUnguarded(callId, result) ==
    /\ nextId + 1 <= MaxNodes
    /\ LET toolMessage == Message(nextId, "tool", None, None,
                                  Some(<<ToolResult(callId, result)>>), headId)
           nextMap == appendToTree(headId, toolMessage, messageMap)
       IN processConversationTurn(nextMap, toolMessage.id, nextId + 1)
    /\ nextId' = nextId + 2
    /\ UNCHANGED <<config, chunkCount, walk, navCall, download, stream, request>>

\* faulty handleToolSubmit: the tool node is appended and no turn is started
HandleToolSubmitNoTurn(callId, result) ==
    IF isLoading THEN UNCHANGED vars
    ELSE /\ nextId + 1 <= MaxNodes
         /\ LET toolMessage == Message(nextId, "tool", None, None,
                                       Some(<<ToolResult(callId, result)>>), headId)
            IN updateState(appendToTree(headId, toolMessage, messageMap), toolMessage.id)
         /\ nextId' = nextId + 1
         /\ UNCHANGED <<config, isLoading, chunkCount, walk, navCall, download, stream, request>>
         /\ UNCHANGED turnLocals

\* handleToolSubmit(callId, result)
HandleToolSubmit(callId, result) ==
    IF isLoading THEN UNCHANGED vars
    ELSE /\ nextId + 1 <= MaxNodes
         /\ LET toolMessage == Message(nextId, "tool", None, None,
                                       Some(<<ToolResult(callId, result)>>), headId)
                nextMap == appendToTree(headId, toolMessage, messageMap)
            IN processConversationTurn(nextMap, toolMessage.id, nextId + 1)
         /\ nextId' = nextId + 2
         /\ UNCHANGED <<config, chunkCount, walk, navCall, download, stream, request>>

\* Everything but the record of the last click
varsButCall == <<messageMap, headId, config, isLoading, pc, modelMsgId, currentMap,
                 currentHead, historyForApi, accumulatedText, currentToolCalls,
                 executionQueue, results, nextId, chunkLog, chunkCount, walk,
                 download, stream, request>>

\* faulty handleRegenerate: the turn is started from the message itself
handleRegenerateFromSelf(msgId) ==
    IF isLoading THEN UNCHANGED varsButCall
    ELSE IF msgId \notin DOMAIN messageMap THEN UNCHANGED varsButCall
    ELSE IF messageMap[msgId].parentId = NULL THEN UNCHANGED varsButCall
    ELSE /\ nextId <= MaxNodes
         /\ processConversationTurn(messageMap, msgId, nextId)
         /\ nextId' = nextId + 1
         /\ UNCHANGED <<config, chunkCount, walk, download, stream, request>>

\* handleRegenerate(msgId); the record of the click is left to the caller
handleRegenerate(msgId) ==
    IF isLoading THEN UNCHANGED varsButCall
    ELSE IF msgId \notin DOMAIN messageMap THEN UNCHANGED varsButCall
    ELSE IF messageMap[msgId].parentId = NULL THEN UNCHANGED varsButCall
    ELSE /\ nextId <= MaxNodes
         /\ processConversationTurn(messageMap, messageMap[msgId].parentId, nextId)
         /\ nextId' = nextId + 1
         /\ UNCHANGED <<config, chunkCount, walk, download, stream, request>>

\* A click on Regenerate in a specification that keeps no record of clicks
HandleRegenerate(msgId) == handleRegenerate(msgId) /\ UNCHANGED navCall

\* faulty leaf search: follows the oldest child
RECURSIVE FollowOldest(_, _)
FollowOldest(map, ptr) ==
    IF ptr \notin DOMAIN map \/ Len(map[ptr].childrenIds) = 0
    THEN ptr
    ELSE FollowOldest(map, map[ptr].childrenIds[1])

\* while (true) { ...; ptr = node.childrenIds[node.childrenIds.length - 1] }
RECURSIVE FollowLatest(_, _)
FollowLatest(map, ptr) ==
    IF ptr \notin DOMAIN map \/ Len(map[ptr].childrenIds) = 0
    THEN ptr
    ELSE FollowLatest(map, Last(map[ptr].childrenIds))

\* nextIndex with the clamp (indices are 1-based here)
NextIndex(currentIndex, direction, length) ==
    LET raw == IF direction = "prev" THEN currentIndex - 1 ELSE currentIndex + 1
    IN IF raw < 1 THEN 1 ELSE IF raw > length THEN length ELSE raw

Directions == {"prev", "next"}

\* navigateBranch(msgId, direction); it is not guarded by isLoading
navigateBranch(msgId, direction) ==
    /\ pc # "open"
    /\ IF msgId \notin DOMAIN messageMap
       THEN UNCHANGED <<messageMap, headId>>
       ELSE LET msg == messageMap[msgId]
            IN IF msg.parentId = NULL \/ msg.parentId \notin DOMAIN messageMap
               THEN UNCHANGED <<messageMap, headId>>
               ELSE LET parent == messageMap[msg.parentId]
                        currentIndex == IndexOf(parent.childrenIds, msgId)
                    IN IF currentIndex = -1
                       THEN UNCHANGED <<messageMap, headId>>
                       ELSE LET nextIndex == NextIndex(currentIndex, direction,
                                                       Len(parent.childrenIds))
                                nextChildId == parent.childrenIds[nextIndex]
                            IN updateState(messageMap, FollowLatest(messageMap, nextChildId))
    /\ UNCHANGED <<config, isLoading, nextId, chunkCount, walk, download, stream, request>>
    /\ UNCHANGED turnLocals

\* ConfigPanel: handleSetActiveModel(id), between turns
handleSetActiveModel(id) ==
    /\ ~isLoading
    /\ config.activeModelId # id
    /\ config' = [config EXCEPT !.activeModelId = id]
    /\ UNCHANGED <<messageMap, headId, isLoading, nextId, chunkCount, walk, navCall, download, stream, request>>
    /\ UNCHANGED turnLocals

ManualResult == StrVal(<<"manual">>)

Next ==
    \/ HandleSend
    \/ \E callId \in PendingCallIds : HandleToolSubmit(callId, ManualResult)
    \/ \E msgId \in RegenerableIds : HandleRegenerate(msgId)
    \/ \E msgId \in NavigableIds, d \in Directions :
          navigateBranch(msgId, d) /\ UNCHANGED navCall
    \/ \E id \in ModelIds : handleSetActiveModel(id)
    \/ OpenStream
    \/ \E chunk \in Chunks : FoldChunk(chunk)
    \/ \E message \in StreamErrors : StreamThrow(message)
    \/ StreamEnd
    \/ \E outcome \in ToolOutcomes : ExecTool(outcome)

Spec == Init /\ [][Next]_vars

\* ---------------------------------------------- appendToTree on its own
\* A caller of appendToTree: every caller in the source builds the message with
\* parentId equal to the parentId argument.
AppendCall(parentId) ==
    /\ nextId <= MaxAppend
    /\ LET newMessage == Message(nextId, "user", Some(<<"hi">>), None, None, parentId)
       IN messageMap' = appendToTree(parentId, newMessage, messageMap)
    /\ nextId' = nextId + 1
    /\ UNCHANGED <<headId, config, isLoading, chunkCount, walk, navCall, download, stream, request>>
    /\ UNCHANGED turnLocals

InitAppend ==
    /\ messageMap = EmptyMap
    /\ headId = NULL
    /\ config = [activeModelId |-> "defaultGemini", tools |-> <<>>]
    /\ isLoading = FALSE
    /\ InitLocals
    /\ nextId = 1
    /\ chunkCount = 0
    /\ walk = NoWalk
    /\ download = NoDownload
    /\ stream = NoStream
    /\ request = NoRequest
    /\ navCall = NoCall

NextAppend == \E parentId \in DOMAIN messageMap \cup {NULL, Ghost} : AppendCall(parentId)

SpecAppend == InitAppend /\ [][NextAppend]_vars

\* -------------------------------------------------- getThread on its own
\* Mappings as an imported document may hold them: any subset of the ids, any
\* parentId (null, a key, another id, itself), so dangling links and cycles occur.
ThreadIds == 1..MaxThreadIds

ThreadMaps ==
    UNION { [ids -> [id : ThreadIds, role : {"user"}, content : {Some(<<"hi">>)},
                     toolCalls : {None}, toolResults : {None},
                     parentId : ThreadIds \cup {NULL, Ghost}, childrenIds : {<<>>}]]
            : ids \in SUBSET ThreadIds }

InitThread ==
    /\ messageMap \in { m \in ThreadMaps : \A k \in DOMAIN m : m[k].id = k }
    /\ headId \in ThreadIds \cup {NULL, Ghost}
    /\ config = [activeModelId |-> "defaultGemini", tools |-> <<>>]
    /\ isLoading = FALSE
    /\ InitLocals
    /\ nextId = 1
    /\ chunkCount = 0
    /\ walk = GetThreadEnter(messageMap, headId)
    /\ download = NoDownload
    /\ stream = NoStream
    /\ request = NoRequest
    /\ navCall = NoCall

\* One pass through the while loop of getThread(messageMap, headId)
GetThreadStep ==
    /\ ~walk.done
    /\ Len(walk.thread) < MaxWalk
    /\ walk' = GetThreadIter(messageMap, walk)
    /\ UNCHANGED <<messageMap, headId, config, isLoading, nextId, chunkCount, navCall, download, stream, request>>
    /\ UNCHANGED turnLocals

NextThread == GetThreadStep

SpecThread == InitThread /\ [][NextThread]_vars

\* ----------------------------------------------- navigateBranch on its own
\* Well-formed trees built by appendToTree: node i is appended under par[i].
RECURSIVE BuildMap(_, _)
BuildMap(par, n) ==
    IF n = 0 THEN EmptyMap
    ELSE appendToTree(par[n], Message(n, "user", Some(<<"hi">>), None, None, par[n]),
                      BuildMap(par, n - 1))

NavMaps ==
    UNION { { BuildMap(par, n) :
                par \in { f \in [1..n -> 0..(n - 1)] : \A i \in 1..n : f[i] < i } }
            : n \in 0..MaxNavNodes }

InitNav ==
    /\ messageMap \in NavMaps
    /\ headId \in DOMAIN messageMap \cup {NULL}
    /\ config = [activeModelId |-> "defaultGemini", tools |-> <<>>]
    /\ isLoading = FALSE
    /\ InitLocals
    /\ nextId = 1
    /\ chunkCount = 0
    /\ walk = NoWalk
    /\ download = NoDownload
    /\ stream = NoStream
    /\ request = NoRequest
    /\ navCall = NoCall

\* A click on a branch button of a message of the rendered thread
NavigateCall(msgId, direction) ==
    /\ navigateBranch(msgId, direction)
    /\ navCall' = [msgId |-> msgId, direction |-> direction]

NextNav == \E msgId \in NavigableIds, d \in Directions : NavigateCall(msgId, d)

SpecNav == InitNav /\ [][NextNav]_vars

\* ------------------------------------------------ harness: export / import
\* JSON.stringify of a message: a key whose value is undefined is left out
JsonKeys(msg) ==
    {"id", "role", "parentId", "childrenIds"}
        \cup { k \in {"content", "toolCalls", "toolResults"} : IsSome(msg[k]) }

JsonMessage(msg) ==
    [k \in JsonKeys(msg) |->
        IF k \in {"content", "toolCalls", "toolResults"} THEN Val(msg[k]) ELSE msg[k]]

\* JSON.parse of a message object, read through the Message interface: a key
\* that is not there reads as undefined
ParseMessage(obj) ==
    [id |-> obj.id, role |-> obj.role,
     content |-> IF "content" \in DOMAIN obj THEN Some(obj.content) ELSE None,
     toolCalls |-> IF "toolCalls" \in DOMAIN obj THEN Some(obj.toolCalls) ELSE None,
     toolResults |-> IF "toolResults" \in DOMAIN obj THEN Some(obj.toolResults) ELSE None,
     parentId |-> obj.parentId, childrenIds |-> obj.childrenIds]

\* JSON.stringify(state, null, 2) of { config, messageMap, headId }
StringifyState(cfg, map, head) ==
    [config |-> cfg,
     messageMap |-> [k \in DOMAIN map |-> JsonMessage(map[k])],
     headId |-> head]

DEFAULT_CONFIG == [activeModelId |-> "defaultGemini", tools |-> <<>>]

\* handleExport('state')
handleExport ==
    /\ download' = [made |-> TRUE, picked |-> FALSE,
                    content |-> StringifyState(config, messageMap, headId),
                    messageMap |-> messageMap, headId |-> headId]
    /\ UNCHANGED <<messageMap, headId, config, isLoading, nextId, chunkCount, walk, navCall, stream, request>>
    /\ UNCHANGED turnLocals

\* The forEach of the legacy import: st = [map, prevId, fresh]
LegacyStep(st, msg) ==
    LET id == IF msg.id = NULL THEN st.fresh ELSE msg.id
        opt(k) == IF k \in DOMAIN msg THEN Some(msg[k]) ELSE None
        newMsg == Message(id, msg.role, opt("content"), opt("toolCalls"),
                          opt("toolResults"), st.prevId)
        added == [k \in DOMAIN st.map \cup {id} |-> IF k = id THEN newMsg ELSE st.map[k]]
        linked == IF st.prevId # NULL /\ st.prevId \in DOMAIN added
                  THEN [added EXCEPT ![st.prevId].childrenIds = Append(@, id)]
                  ELSE added
    IN [map |-> linked, prevId |-> id,
        fresh |-> IF msg.id = NULL THEN st.fresh + 1 ELSE st.fresh]

RECURSIVE LegacyFold(_, _, _)
LegacyFold(messages, i, st) ==
    IF i > Len(messages) THEN st
    ELSE LegacyFold(messages, i + 1, LegacyStep(st, messages[i]))

\* handleImport: reader.onload for a file whose text parses to the object state
\* (the record of the download is left to the caller)
handleImport(state) ==
    IF "messages" \in DOMAIN state
    THEN LET st == LegacyFold(state.messages, 1,
                              [map |-> EmptyMap, prevId |-> NULL, fresh |-> nextId])
         IN /\ st.fresh <= MaxNodes + 1
            /\ config' = IF "config" \in DOMAIN state THEN state.config ELSE DEFAULT_CONFIG
            /\ messageMap' = st.map
            /\ headId' = st.prevId
            /\ nextId' = st.fresh
            /\ UNCHANGED <<isLoading, chunkCount, walk, navCall, stream, request>>
            /\ UNCHANGED turnLocals
    ELSE IF /\ "messageMap" \in DOMAIN state
            /\ "headId" \in DOMAIN state
            /\ state.headId # NULL
         THEN /\ config' = IF "config" \in DOMAIN state THEN state.config ELSE DEFAULT_CONFIG
              /\ messageMap' = [k \in DOMAIN state.messageMap |->
                                   ParseMessage(state.messageMap[k])]
              /\ headId' = state.headId
              /\ UNCHANGED <<isLoading, nextId, chunkCount, walk, navCall, stream, request>>
              /\ UNCHANGED turnLocals
         ELSE /\ UNCHANGED <<messageMap, headId, config, isLoading, nextId, chunkCount,
                           walk, navCall, stream, request>>
              /\ UNCHANGED turnLocals

\* The user picks a file in the import dialog
ImportCall(file) ==
    /\ handleImport(file)
    /\ download' = [download EXCEPT !.picked = (download.made /\ file = download.content)]

\* Sessions the program reaches: a fresh one, and finished turns of every shape
UserNode == Message(1, "user", Some(<<"hi">>), None, None, NULL)

ModelNodes(id, parentId) ==
    { Message(id, "model", Some(<<"a">>), None, None, parentId),
      Message(id, "model", Some(<<>>), Some(<<>>), None, parentId),
      Message(id, "model", Some(<<"b">>), Some(S12), None, parentId),
      Message(id, "model", Some(ErrorMessage("Failed to fetch")), None, None, parentId) }

OneTurnMaps ==
    { appendToTree(1, m, appendToTree(NULL, UserNode, EmptyMap)) : m \in ModelNodes(2, 1) }

TwoBranchMaps ==
    { appendToTree(1, m, map) : m \in ModelNodes(3, 1), map \in OneTurnMaps }

Leaves(map) == { k \in DOMAIN map : map[k].childrenIds = <<>> }

Sessions ==
    { [messageMap |-> EmptyMap, headId |-> NULL] }
        \cup { [messageMap |-> map, headId |-> h] :
                  <<map, h>> \in { p \in (OneTurnMaps \cup TwoBranchMaps) \X (1..3) :
                                      p[2] \in Leaves(p[1]) } }

\* A session file written by the oldest format: an array of messages
LegacyFile ==
    [messages |-> << [id |-> 1, role |-> "user", content |-> <<"hi">>],
                     [id |-> NULL, role |-> "model", content |-> <<"a">>] >>]

\* The files the user can pick: the one just downloaded, or an older one
ImportFiles ==
    (IF download.made THEN {download.content} ELSE {})
        \cup { StringifyState(DEFAULT_CONFIG, s.messageMap, s.headId) :
                  s \in { t \in Sessions : Len(t.messageMap) <= 2 } }
        \cup { LegacyFile }

InitSession ==
    /\ \E s \in Sessions : messageMap = s.messageMap /\ headId = s.headId
    /\ config \in Configs
    /\ isLoading = FALSE
    /\ InitLocals
    /\ nextId = 4
    /\ chunkCount = 0
    /\ walk = NoWalk
    /\ download = NoDownload
    /\ stream = NoStream
    /\ request = NoRequest
    /\ navCall = NoCall

NextSession ==
    \/ handleExport
    \/ \E file \in ImportFiles : ImportCall(file)

SpecSession == InitSession /\ [][NextSession]_vars

\* ------------------------------------------- harness: automatic execution
\* One conversation in which every registered tool runs automatically and the
\* tool sources return or throw every kind of value.
ExecConfig ==
    [activeModelId |-> "custom",
     tools |-> << UserTool("t1", TRUE, TRUE, "src"), UserTool("t2", TRUE, TRUE, "src") >>]

InitExec ==
    /\ messageMap = EmptyMap
    /\ headId = NULL
    /\ config = ExecConfig
    /\ isLoading = FALSE
    /\ InitLocals
    /\ nextId = 1
    /\ chunkCount = 0
    /\ navCall = NoCall
    /\ walk = NoWalk
    /\ download = NoDownload
    /\ stream = NoStream
    /\ request = NoRequest

NextExec ==
    \/ HandleSend
    \/ OpenStream
    \/ \E chunk \in Chunks : FoldChunk(chunk)
    \/ StreamEnd
    \/ \E outcome \in AllToolOutcomes : ExecTool(outcome)

SpecExec == InitExec /\ [][NextExec]_vars

\* ------------------------------------------- harness: manual submissions
\* A session that already holds a user message and a model node with two calls,
\* as one turn leaves it: with no executable call the thread ends at the model
\* node; with t1 executable and t2 not, at the tool node holding c1's result.
\* The nodes of that turn carry the ids 11..13; new nodes take 1, 2, ...
PendingSession ==
    LET user == Message(11, "user", Some(<<"hi">>), None, None, NULL)
        model == Message(12, "model", Some(<<"b">>), Some(S12), None, 11)
    IN appendToTree(11, model, appendToTree(NULL, user, EmptyMap))

PartlyAnsweredSession ==
    LET tool == Message(13, "tool", None, None,
                        Some(<<ToolResult("c1", JSONstringify(StrVal(<<"sunny">>)))>>), 12)
    IN appendToTree(12, tool, PendingSession)

ManualSessions ==
    { [tools |-> << UserTool("t1", TRUE, FALSE, "src") >>,
       messageMap |-> PendingSession, headId |-> 12],
      [tools |-> << UserTool("t1", TRUE, TRUE, "src"), UserTool("t2", TRUE, FALSE, "src") >>,
       messageMap |-> PartlyAnsweredSession, headId |-> 13] }

InitManual ==
    /\ \E s \in ManualSessions, id \in ModelIds :
          /\ messageMap = s.messageMap
          /\ headId = s.headId
          /\ config = [activeModelId |-> id, tools |-> s.tools]
    /\ isLoading = FALSE
    /\ InitLocals
    /\ nextId = 1
    /\ chunkCount = 0
    /\ navCall = NoCall
    /\ walk = NoWalk
    /\ download = NoDownload
    /\ stream = NoStream
    /\ request = NoRequest

NextManual ==
    \/ \E callId \in PendingCallIds : HandleToolSubmit(callId, ManualResult)
    \/ OpenStream
    \/ \E chunk \in Chunks : FoldChunk(chunk)
    \/ \E message \in StreamErrors : StreamThrow(message)
    \/ StreamEnd
    \/ \E outcome \in ToolOutcomes : ExecTool(outcome)

SpecManual == InitManual /\ [][NextManual]_vars

\* ------------------------------------------------ streamOpenAI on its own
\* The response body is text: a sequence of tokens.  NL is "\n", SP is one
\* white-space character other than "\n" (a blank or the "\r" of a CRLF line
\* end), DATA the six characters "data: ", DONE the characters "[DONE]", EVENT
\* a field that is no data field, BAD a payload that JSON.parse rejects, and
\* Json(i) the text of the JSON value Payloads[i].
Tok(k, v) == [k |-> k, v |-> v]
NL == Tok("nl", 0)
SP == Tok("sp", 0)
DATA == Tok("data: ", 0)
DONE == Tok("[DONE]", 0)
EVENT == Tok("event: ping", 0)
BAD == Tok("{not json", 0)
Json(i) == Tok("json", i)

\* Fragments of the text of a call's arguments
ArgOpen == "{\"city\":"
ArgClose == "\"NYC\"}"
ArgWhole == "{}"

\* One element of delta.tool_calls; "" and <<>> stand for an absent field
Fragment(index, id, name, arguments) ==
    [index |-> index, id |-> id, name |-> name, arguments |-> arguments]

\* A parsed payload: choices is "absent" (no choices array), "empty" (an empty
\* array) or "delta"; content is "" when absent; tool_calls is None when absent
Payload(choices, content, tool_calls) ==
    [choices |-> choices, content |-> content, tool_calls |-> tool_calls]

Payloads ==
    << Payload("delta", "a", None),
       Payload("delta", "", Some(<< Fragment(0, "c1", "t1", <<ArgOpen>>) >>)),
       Payload("delta", "", Some(<< Fragment(0, "", "", <<ArgClose>>) >>)),
       Payload("delta", "b", Some(<< Fragment(1, "c2", "t2", <<ArgWhole>>) >>)),
       Payload("absent", "", None),
       Payload("empty", "", None) >>

\* What one reader.read() can deliver
Segments ==
    { <<DATA, Json(i), NL>> : i \in 1..Len(Payloads) }
    \cup { <<DATA, BAD, NL>>,
           <<EVENT, NL>>,
           <<SP, DATA, Json(1), SP, NL>>,
           <<DATA, SP, DONE, NL>>,
           <<DATA, DONE, SP, NL>>,
           <<DATA, DONE, NL, DATA, Json(1), NL>>,
           <<DATA, Json(2)>>,
           <<NL, DATA, Json(3), NL, DATA>>,
           <<Json(1)>> }

\* buffer.split('\n'): the pieces between the newlines, the last one included
RECURSIVE SplitLines(_, _, _)
SplitLines(text, piece, pieces) ==
    IF text = <<>> THEN Append(pieces, piece)
    ELSE IF Head(text) = NL THEN SplitLines(Tail(text), <<>>, Append(pieces, piece))
         ELSE SplitLines(Tail(text), Append(piece, Head(text)), pieces)

RECURSIVE TrimStart(_)
TrimStart(line) ==
    IF line # <<>> /\ Head(line) = SP THEN TrimStart(Tail(line)) ELSE line

RECURSIVE TrimEnd(_)
TrimEnd(line) ==
    IF line # <<>> /\ Last(line) = SP THEN TrimEnd(SubSeq(line, 1, Len(line) - 1)) ELSE line

\* line.trim()
Trim(line) == TrimEnd(TrimStart(line))

\* trimmed.startsWith('data: ')
StartsWithData(trimmed) == trimmed # <<>> /\ Head(trimmed) = DATA

\* JSON.parse accepts the text: one JSON value, white space around it allowed
IsJSON(text) == Len(TrimStart(text)) = 1 /\ TrimStart(text)[1].k = "json"

\* JSON.parse(text), for a text it accepts
JSONparse(text) == Payloads[TrimStart(text)[1].v]

EmptyObject == ObjVal(<<ArgWhole>>)

\* let parsedArgs = {}; try { parsedArgs = JSON.parse(tc.args) } catch {}
ParseArgs(args) ==
    IF args = <<ArgWhole>> \/ args = <<ArgOpen, ArgClose>> THEN ObjVal(args) ELSE EmptyObject

\* faulty accumulation: the fragment replaces the text received so far
ReplaceArgs(args, arguments) == IF arguments # <<>> THEN arguments ELSE args

\* if (tc.function?.arguments) existing.args += tc.function.arguments
AppendArgs(args, arguments) == args \o arguments

\* currentToolCalls.get(index) || { id: '', name: '', args: '' }, the three
\* updates, and currentToolCalls.set(index, existing); calls keeps the
\* insertion order of the Map
SetCall(calls, tc) ==
    LET at == { i \in 1..Len(calls) : calls[i].index = tc.index }
        existing == IF at = {} THEN [index |-> tc.index, id |-> "", name |-> "", args |-> <<>>]
                    ELSE calls[CHOOSE i \in at : TRUE]
        updated == [existing EXCEPT !.id = IF tc.id # "" THEN tc.id ELSE @,
                                    !.name = IF tc.name # "" THEN tc.name ELSE @,
                                    !.args = AppendArgs(@, tc.arguments)]
    IN IF at = {} THEN Append(calls, updated)
       ELSE [calls EXCEPT ![CHOOSE i \in at : TRUE] = updated]

RECURSIVE SetCalls(_, _)
SetCalls(calls, tool_calls) ==
    IF tool_calls = <<>> THEN calls
    ELSE SetCalls(SetCall(calls, Head(tool_calls)), Tail(tool_calls))

\* A tool call as the streamers emit it
ToolCallArgs(id, name, args) == [id |-> id, name |-> name, args |-> args]

\* toolCallsSnapshot
Snapshot(calls) ==
    [i \in 1..Len(calls) |-> ToolCallArgs(calls[i].id, calls[i].name, ParseArgs(calls[i].args))]

\* faulty catch: a payload that does not parse ends the stream
OnParseErrorAbort(st) == [st EXCEPT !.ended = TRUE]

\* catch (e) { }: the line is given up, the loop goes on
OnParseError(st) == st

\* faulty sentinel: the loop goes on with the next line
OnSentinelContinue(st) == st

\* if (trimmed === 'data: [DONE]') return
OnSentinel(st) == [st EXCEPT !.ended = TRUE]

\* The body of `for (const line of lines)` for one line
ProcessLine(st, line) ==
    LET trimmed == Trim(line)
    IN IF ~StartsWithData(trimmed) THEN st
       ELSE IF trimmed = <<DATA, DONE>> THEN OnSentinel(st)
       ELSE IF ~IsJSON(Tail(trimmed)) THEN OnParseError(st)
       ELSE LET json == JSONparse(Tail(trimmed))
            IN IF json.choices = "absent" THEN OnParseError(st)
               ELSE IF json.choices = "empty" THEN st
               ELSE LET text == IF json.content # ""
                                THEN <<StreamChunk(Some(json.content), None)>> ELSE <<>>
                        calls == IF IsSome(json.tool_calls)
                                 THEN SetCalls(st.calls, Val(json.tool_calls)) ELSE st.calls
                        snap == IF IsSome(json.tool_calls)
                                THEN <<StreamChunk(None, Some(Snapshot(calls)))>> ELSE <<>>
                    IN [st EXCEPT !.calls = calls, !.out = @ \o text \o snap]

\* The streamer before the first read.  out is what has been yielded, log the
\* lines the loop has taken up, reads the number of reads made, text the
\* response text delivered so far
OpenAIStream ==
    [provider |-> "openai", buffer |-> <<>>, lines |-> <<>>, calls |-> <<>>,
     out |-> <<>>, ended |-> FALSE, log |-> <<>>, reads |-> 0, text |-> <<>>]

InitOpenAI ==
    /\ messageMap = EmptyMap
    /\ headId = NULL
    /\ config = [activeModelId |-> "custom", tools |-> <<>>]
    /\ isLoading = FALSE
    /\ InitLocals
    /\ nextId = 1
    /\ chunkCount = 0
    /\ navCall = NoCall
    /\ walk = NoWalk
    /\ download = NoDownload
    /\ stream = OpenAIStream
    /\ request = NoRequest

\* await reader.read() delivers a segment; the complete lines are split off
Read(segment) ==
    /\ ~stream.ended
    /\ stream.lines = <<>>
    /\ stream.reads < MaxReads
    /\ LET pieces == SplitLines(stream.buffer \o segment, <<>>, <<>>)
       IN stream' = [stream EXCEPT !.lines = SubSeq(pieces, 1, Len(pieces) - 1),
                                   !.buffer = Last(pieces),
                                   !.reads = @ + 1,
                                   !.text = @ \o segment]
    /\ UNCHANGED <<messageMap, headId, config, isLoading, nextId, chunkCount, walk,
                   navCall, download, request>>
    /\ UNCHANGED turnLocals

\* await reader.read() reports done: break
ReadDone ==
    /\ ~stream.ended
    /\ stream.lines = <<>>
    /\ stream' = [stream EXCEPT !.ended = TRUE]
    /\ UNCHANGED <<messageMap, headId, config, isLoading, nextId, chunkCount, walk,
                   navCall, download, request>>
    /\ UNCHANGED turnLocals

\* One iteration of `for (const line of lines)`
LineStep ==
    /\ ~stream.ended
    /\ stream.lines # <<>>
    /\ stream' = [ProcessLine(stream, Head(stream.lines))
                     EXCEPT !.lines = Tail(stream.lines),
                            !.log = Append(stream.log, Head(stream.lines))]
    /\ UNCHANGED <<messageMap, headId, config, isLoading, nextId, chunkCount, walk,
                   navCall, download, request>>
    /\ UNCHANGED turnLocals

NextOpenAI ==
    \/ \E segment \in Segments : Read(segment)
    \/ ReadDone
    \/ LineStep

SpecOpenAI == InitOpenAI /\ [][NextOpenAI]_vars

\* ------------------------------------------------ streamGemini on its own
\* One element of chunk.candidates[0].content.parts that has a functionCall;
\* id is "" when the provider sends none
FunctionCall(id, name) == [id |-> id, name |-> name]

\* A chunk of the SDK's stream: chunk.text ("" when there is none) and the
\* function calls among its parts
GeminiChunk(text, functionCalls) == [text |-> text, functionCalls |-> functionCalls]

GeminiChunks ==
    { GeminiChunk("a", <<>>),
      GeminiChunk("", << FunctionCall("c1", "t1") >>),
      GeminiChunk("", << FunctionCall("c2", "t2") >>),
      GeminiChunk("b", << FunctionCall("c1", "t1"), FunctionCall("c2", "t2") >>),
      GeminiChunk("", << FunctionCall("", "t1") >>) }

\* `call_${crypto.randomUUID().split('-')[0]}`: the n-th id generated in the stream
GeneratedId(n) == "call_" \o ToString(n)

\* fcs.map(fc => ({ id: fc.id || generated, name: fc.name, args: fc.args }))
RECURSIVE MapFunctionCalls(_, _)
MapFunctionCalls(fcs, generated) ==
    IF fcs = <<>> THEN <<>>
    ELSE IF Head(fcs).id # ""
         THEN <<ToolCallArgs(Head(fcs).id, Head(fcs).name, EmptyObject)>>
              \o MapFunctionCalls(Tail(fcs), generated)
         ELSE <<ToolCallArgs(GeneratedId(generated + 1), Head(fcs).name, EmptyObject)>>
              \o MapFunctionCalls(Tail(fcs), generated + 1)

\* The number of function calls without an id
Unnamed(fcs) == Len(SelectSeq(fcs, LAMBDA fc : fc.id = ""))

GeminiStream ==
    [provider |-> "gemini", out |-> <<>>, ended |-> FALSE, log |-> <<>>,
     reads |-> 0, generated |-> 0]

InitGemini ==
    /\ messageMap = EmptyMap
    /\ headId = NULL
    /\ config = [activeModelId |-> "custom", tools |-> <<>>]
    /\ isLoading = FALSE
    /\ InitLocals
    /\ nextId = 1
    /\ chunkCount = 0
    /\ navCall = NoCall
    /\ walk = NoWalk
    /\ download = NoDownload
    /\ stream = GeminiStream
    /\ request = NoRequest

\* One iteration of `for await (const chunk of result)`
GeminiYield(chunk) ==
    /\ ~stream.ended
    /\ stream.reads < MaxReads
    /\ LET toolCalls == IF Len(chunk.functionCalls) > 0
                        THEN Some(MapFunctionCalls(chunk.functionCalls, stream.generated))
                        ELSE None
           textDelta == IF chunk.text # "" THEN Some(chunk.text) ELSE None
       IN stream' = [stream EXCEPT !.out = Append(@, StreamChunk(textDelta, toolCalls)),
                                   !.log = Append(@, chunk),
                                   !.reads = @ + 1,
                                   !.generated = @ + Unnamed(chunk.functionCalls)]
    /\ UNCHANGED <<messageMap, headId, config, isLoading, nextId, chunkCount, walk,
                   navCall, download, request>>
    /\ UNCHANGED turnLocals

\* The SDK's stream is exhausted
GeminiEnd ==
    /\ ~stream.ended
    /\ stream' = [stream EXCEPT !.ended = TRUE]
    /\ UNCHANGED <<messageMap, headId, config, isLoading, nextId, chunkCount, walk,
                   navCall, download, request>>
    /\ UNCHANGED turnLocals

NextGemini ==
    \/ \E chunk \in GeminiChunks : GeminiYield(chunk)
    \/ GeminiEnd

SpecGemini == InitGemini /\ [][NextGemini]_vars

\* ------------------------------------------- the request on its own
\* The configured models of this specification: provider and apiKey
RequestModels ==
    [ defaultGemini |-> [provider |-> "gemini", apiKey |-> ""],
      gemini |-> [provider |-> "gemini", apiKey |-> "key"],
      custom |-> [provider |-> "openai", apiKey |-> "key"],
      customNoKey |-> [provider |-> "openai", apiKey |-> ""] ]

ToolNames == << "t1", "t2", "t3" >>

\* Up to MaxTools registered tools, every combination of the two flags
RequestRegistries ==
    UNION { { [i \in 1..n |-> UserTool(ToolNames[i], f[i][1], f[i][2], "src")] :
                f \in [1..n -> BOOLEAN \X BOOLEAN] } : n \in 0..MaxTools }

\* t.definition, reduced to the name
Definition(t) == [name |-> t.name]

\* faulty selection: every registered tool is declared
AllTools(cfg) == [i \in 1..Len(cfg.tools) |-> Definition(cfg.tools[i])]

\* config.tools.filter(t => t.active).map(t => t.definition)
ActiveTools(cfg) ==
    LET kept == SelectSeq(cfg.tools, LAMBDA t : t.active)
    IN [i \in 1..Len(kept) |-> Definition(kept[i])]

mapToolsToOpenAI(tools) ==
    [i \in 1..Len(tools) |-> [type |-> "function", function |-> [name |-> tools[i].name]]]

\* The body for the OpenAI-compatible provider, reduced to stream and tools:
\* if (tools.length > 0) body.tools = mapToolsToOpenAI(tools)
OpenAIBody(tools) ==
    IF Len(tools) > 0 THEN [stream |-> TRUE, tools |-> mapToolsToOpenAI(tools)]
    ELSE [stream |-> TRUE]

\* The arguments of generateContentStream, reduced to config.tools;
\* None stands for undefined
GeminiArgs(tools) ==
    [config |-> [tools |-> IF Len(tools) > 0
                           THEN Some(<< [functionDeclarations |-> tools] >>)
                           ELSE None]]

Built(by, threw, provider, body) ==
    [built |-> TRUE, by |-> by, threw |-> threw, provider |-> provider, body |-> body]

RequestFor(by, cfg) ==
    LET activeModel == RequestModels[cfg.activeModelId]
    IN IF activeModel.provider = "openai"
       THEN Built(by, "", "openai", OpenAIBody(ActiveTools(cfg)))
       ELSE Built(by, "", "gemini", GeminiArgs(ActiveTools(cfg)))

\* getRawRequest(config, messages)
getRawRequest(cfg) ==
    IF cfg.activeModelId \notin DOMAIN RequestModels
    THEN Built("getRawRequest", "No active model selected.", "none", <<>>)
    ELSE RequestFor("getRawRequest", cfg)

\* sendMessageStream(config, history) up to the request the streamer builds
sendMessageStream(cfg) ==
    IF cfg.activeModelId \notin DOMAIN RequestModels
    THEN Built("sendMessageStream", "No active model selected.", "none", <<>>)
    ELSE IF RequestModels[cfg.activeModelId].apiKey = ""
         THEN Built("sendMessageStream", "API Key is missing for the selected model.",
                    "none", <<>>)
         ELSE RequestFor("sendMessageStream", cfg)

InitRequest ==
    /\ messageMap = EmptyMap
    /\ headId = NULL
    /\ config \in [activeModelId : DOMAIN RequestModels \cup {"missing"},
                   tools : RequestRegistries]
    /\ isLoading = FALSE
    /\ InitLocals
    /\ nextId = 1
    /\ chunkCount = 0
    /\ navCall = NoCall
    /\ walk = NoWalk
    /\ download = NoDownload
    /\ stream = NoStream
    /\ request = NoRequest

\* The request preview is opened
PreviewRequest ==
    /\ ~request.built
    /\ request' = getRawRequest(config)
    /\ UNCHANGED <<messageMap, headId, config, isLoading, nextId, chunkCount, walk,
                   navCall, download, stream>>
    /\ UNCHANGED turnLocals

\* A turn asks for the stream
SendRequest ==
    /\ ~request.built
    /\ request' = sendMessageStream(config)
    /\ UNCHANGED <<messageMap, headId, config, isLoading, nextId, chunkCount, walk,
                   navCall, download, stream>>
    /\ UNCHANGED turnLocals

NextRequest == PreviewRequest \/ SendRequest

SpecRequest == InitRequest /\ [][NextRequest]_vars

\* ------------------------------------------------- one turn, with fairness
\* A fresh session in which the user sends once; the turn then runs by itself
\* and every tool returns.  The awaited steps are fair: the request is answered,
\* the stream ends or fails, and an execution that has started completes.
FirstSend == messageMap = EmptyMap /\ HandleSend

StreamStops == StreamEnd \/ \E message \in StreamErrors : StreamThrow(message)

Executes == \E outcome \in { o \in ToolOutcomes : o.ok } : ExecTool(outcome)

NextTurn ==
    \/ FirstSend
    \/ OpenStream
    \/ \E chunk \in Chunks : FoldChunk(chunk)
    \/ StreamStops
    \/ Executes

SpecTurn ==
    /\ Init
    /\ [][NextTurn]_vars
    /\ WF_vars(OpenStream)
    /\ WF_vars(StreamStops)
    /\ WF_vars(Executes)

\* ------------------------------------------- the tree under every operation
\* One session with a usable model, t1 executed automatically and t2 answered
\* by hand: every operation on the tree other than import, in any interleaving.
TreeConfig ==
    [activeModelId |-> "custom",
     tools |-> << UserTool("t1", TRUE, TRUE, "src"), UserTool("t2", TRUE, FALSE, "src") >>]

InitTree ==
    /\ messageMap = EmptyMap
    /\ headId = NULL
    /\ config = TreeConfig
    /\ isLoading = FALSE
    /\ InitLocals
    /\ nextId = 1
    /\ chunkCount = 0
    /\ navCall = NoCall
    /\ walk = NoWalk
    /\ download = NoDownload
    /\ stream = NoStream
    /\ request = NoRequest

NextTree ==
    \/ HandleSend
    \/ \E callId \in PendingCallIds : HandleToolSubmit(callId, ManualResult)
    \/ \E msgId \in RegenerableIds : HandleRegenerate(msgId)
    \/ \E msgId \in NavigableIds, d \in Directions :
          navigateBranch(msgId, d) /\ UNCHANGED navCall
    \/ OpenStream
    \/ \E chunk \in Chunks : FoldChunk(chunk)
    \/ \E message \in StreamErrors : StreamThrow(message)
    \/ StreamEnd
    \/ \E outcome \in ToolOutcomes : ExecTool(outcome)

SpecTree == InitTree /\ [][NextTree]_vars

\* ------------------------------------- the tree after a hand-made import
\* handleImport installs state.messageMap and state.headId of any document that
\* has both, without looking at the links: an empty mapping with a head that
\* is no key, and a single answer whose parentId is no key.
OrphanSession ==
    appendToTree(Ghost, Message(11, "model", Some(<<"a">>), None, None, Ghost), EmptyMap)

ImportedSessions ==
    { [messageMap |-> EmptyMap, headId |-> Ghost],
      [messageMap |-> OrphanSession, headId |-> 11] }

InitImported ==
    /\ \E s \in ImportedSessions : messageMap = s.messageMap /\ headId = s.headId
    /\ config = TreeConfig
    /\ isLoading = FALSE
    /\ InitLocals
    /\ nextId = 1
    /\ chunkCount = 0
    /\ navCall = NoCall
    /\ walk = NoWalk
    /\ download = NoDownload
    /\ stream = NoStream
    /\ request = NoRequest

SpecImported == InitImported /\ [][NextTree]_vars

\* ----------------------------------------------- handleRegenerate on its own
\* The session of the tree harness in which Regenerate is called for any
\* message, known or not, with or without a parent, at any time; the click is
\* recorded, so that a call that changes nothing is a step.
RegenerateCall(msgId) ==
    /\ handleRegenerate(msgId)
    /\ navCall' = [msgId |-> msgId, direction |-> "regenerate"]

NextRegen ==
    \/ HandleSend
    \/ \E msgId \in DOMAIN messageMap \cup {Ghost} : RegenerateCall(msgId)
    \/ \E msgId \in NavigableIds, d \in Directions :
          navigateBranch(msgId, d) /\ UNCHANGED navCall
    \/ OpenStream
    \/ \E chunk \in Chunks : FoldChunk(chunk)
    \/ \E message \in StreamErrors : StreamThrow(message)
    \/ StreamEnd
    \/ Executes

SpecRegen == InitTree /\ [][NextRegen]_vars

\* ------------------------------------------------ the legacy import on its own
\* Files of the array format with up to MaxLegacy messages; a message carries
\* no id or one of two ids, so that ids are missing and repeated; its content
\* tells its place in the array.  Generated ids are the integers from nextId.
LegacyIds == {NULL, 21, 22}

LegacyMessage(id, j) ==
    [id |-> id, role |-> IF j % 2 = 1 THEN "user" ELSE "model", content |-> <<ToString(j)>>]

LegacyFiles ==
    UNION { { [messages |-> [j \in 1..n |-> LegacyMessage(ids[j], j)]] :
                 ids \in [1..n -> LegacyIds] }
            : n \in 0..MaxLegacy }

NextLegacy == \E file \in LegacyFiles : ImportCall(file)

SpecLegacy == InitTree /\ [][NextLegacy]_vars

\* =================================================================== claims

\* C1: after any sequence of appendToTree calls from the empty mapping, with any
\* parentId argument (null, a key, an id that is no key), every node's parentId
\* is null or a key of the mapping, and every id in a node's childrenIds is a
\* key whose parentId is that node.
C1_AppendKeepsLinksConsistent ==
    \A k \in DOMAIN messageMap :
        /\ messageMap[k].parentId = NULL \/ messageMap[k].parentId \in DOMAIN messageMap
        /\ \A i \in 1..Len(messageMap[k].childrenIds) :
              /\ messageMap[k].childrenIds[i] \in DOMAIN messageMap
              /\ messageMap[messageMap[k].childrenIds[i]].parentId = k

\* C2: whenever getThread(mapping, headId) returns for a headId that is a key,
\* the result is non-empty, its last element has id headId, its first element
\* has a parentId that is null or no key, and each element is the parent of
\* the next.
C2_ThreadEndsAtHead ==
    (walk.done /\ headId \in DOMAIN messageMap) =>
        LET t == walk.thread
        IN /\ Len(t) >= 1
           /\ t[Len(t)].id = headId
           /\ t[1].parentId = NULL \/ t[1].parentId \notin DOMAIN messageMap
           /\ \A i \in 1..(Len(t) - 1) : t[i + 1].parentId = t[i].id

C2_Witness ==
    /\ walk.done
    /\ headId \in DOMAIN messageMap
    /\ Len(walk.thread) = MaxThreadIds
    /\ walk.thread[1].parentId = NULL

\* C3: getThread returns the empty sequence when headId is null or no key of the
\* mapping; when the walk reaches a parentId that is no key it returns at once
\* with the nodes collected so far, and it does not raise.
C3_ThreadToleratesMissing ==
    /\ []((headId = NULL \/ headId \notin DOMAIN messageMap) =>
             (walk.done /\ walk.thread = <<>> /\ ~walk.threw))
    /\ [][(~walk.done /\ walk.currentId # NULL /\ walk.currentId \notin DOMAIN messageMap) =>
             (walk'.done /\ walk'.thread = walk.thread /\ ~walk'.threw)]_vars

C3_Witness ==
    /\ walk.done
    /\ ~walk.threw
    /\ Len(walk.thread) >= 2
    /\ walk.thread[1].parentId # NULL
    /\ walk.thread[1].parentId \notin DOMAIN messageMap

\* The content written by the catch block
IsErrorText(content) ==
    IsSome(content) /\ Len(Val(content)) > 0 /\ Val(content)[1] = "Error: "

\* The step in which the stream of the current turn ends without failure
StreamEnds ==
    /\ pc = "streaming"
    /\ pc' # "streaming"
    /\ ~IsErrorText(messageMap'[modelMsgId].content)

\* The positions of the chunks of the turn that carried a snapshot
SnapshotPositions(log) == { i \in 1..Len(log) : IsSome(log[i].toolCalls) }

\* The snapshot of the last chunk that carried one; an empty snapshot is read
\* as "no tool calls", which the node stores as absent.
LastSnapshot(log) ==
    IF SnapshotPositions(log) = {} THEN None
    ELSE LET i == CHOOSE i \in SnapshotPositions(log) :
                     \A j \in SnapshotPositions(log) : j <= i
         IN IF Val(log[i].toolCalls) = <<>> THEN None ELSE log[i].toolCalls

\* C4: when the stream of a turn ends, the toolCalls of the finalized model node
\* equal the snapshot of the last chunk that carried one, and are absent if no
\* chunk carried a snapshot.
C4_LastSnapshotStored ==
    [][StreamEnds => messageMap'[modelMsgId].toolCalls = LastSnapshot(chunkLog)]_vars

\* The step in which the tool node of the current turn is appended
ToolNodeAppended ==
    /\ pc = "executing"
    /\ nextId \notin DOMAIN messageMap
    /\ nextId \in DOMAIN messageMap'
    /\ messageMap'[nextId].role = "tool"

\* A model node that is in the mapping after the step and was not before
NewModelNodes ==
    { k \in DOMAIN messageMap' : k \notin DOMAIN messageMap /\ messageMap'[k].role = "model" }

\* C5: once the stream has ended and the tool node is appended, a new turn is
\* started from that tool node in the same step if and only if the number of
\* results equals the number of tool calls of the finalized model node; no
\* other step taken without an external trigger creates a model node.
C5_ContinuesIffAllExecuted ==
    [][/\ ToolNodeAppended =>
            ( (/\ NewModelNodes # {}
               /\ \A k \in NewModelNodes : messageMap'[k].parentId = nextId
               /\ isLoading'
               /\ headId' \in NewModelNodes)
              <=> Len(Val(messageMap'[nextId].toolResults))
                     = Len(CallsOf(messageMap[modelMsgId])) )
       /\ (isLoading /\ NewModelNodes # {}) =>
            ( /\ ToolNodeAppended
              /\ Len(Val(messageMap'[nextId].toolResults))
                     = Len(CallsOf(messageMap[modelMsgId])) )
      ]_vars

C5_Witness ==
    \E k \in DOMAIN messageMap :
        /\ messageMap[k].role = "model"
        /\ messageMap[k].parentId \in DOMAIN messageMap
        /\ LET p == messageMap[messageMap[k].parentId]
           IN /\ p.role = "tool"
              /\ Len(Val(p.toolResults)) = 2
              /\ Len(CallsOf(messageMap[p.parentId])) = 2

\* The auto-executable calls as the claim defines them
ClaimedAutoExecutable(cfg, tc) ==
    \E i \in 1..Len(cfg.tools) :
        /\ cfg.tools[i].name = tc.name
        /\ cfg.tools[i].active
        /\ cfg.tools[i].autoExecute
        /\ cfg.tools[i].implementation # ""

\* C6: the calls of the finalized model node that are executed automatically
\* are exactly those whose tool is registered, active, flagged autoExecute and
\* has non-empty source; a call naming an inactive tool is never executed.
C6_OnlyActiveToolsExecuted ==
    [][StreamEnds =>
          executionQueue' = SelectSeq(CallsOf(messageMap'[modelMsgId]),
                                      LAMBDA tc : ClaimedAutoExecutable(config, tc))]_vars

\* The step in which context construction or streaming fails
TurnFails ==
    \/ pc = "open" /\ ~HasApiKey(config) /\ pc' # "open"
    \/ \E message \in StreamErrors : StreamThrow(message)

\* C7: when context construction or streaming fails, the turn ends with the
\* pending model node still in the mapping, its content a non-empty error
\* string, the node as head, and the loading flag cleared.
C7_FailureWritesError ==
    [][TurnFails =>
          /\ modelMsgId \in DOMAIN messageMap'
          /\ IsErrorText(messageMap'[modelMsgId].content)
          /\ headId' = modelMsgId
          /\ ~isLoading'
          /\ pc' = "idle"]_vars

C7_Witness ==
    /\ ~isLoading
    /\ headId \in DOMAIN messageMap
    /\ IsErrorText(messageMap[headId].content)
    /\ messageMap[headId].toolCalls = Some(S1)
    /\ messageMap[messageMap[headId].parentId].role = "tool"

CallIds == {"c1", "c2"}

\* The step in which a turn starts: a fresh pending model node
TurnStarts == modelMsgId' # NULL /\ modelMsgId' # modelMsgId

\* C8: while a turn is in flight, send, manual tool submission and regenerate
\* leave mapping, head and the running turn unchanged; a turn starts only from
\* Idle or, as a continuation, in the step that completes the last tool
\* execution of the turn whose stream has ended.
C8_OneTurnInFlight ==
    /\ [](isLoading <=> pc # "idle")
    /\ [][(isLoading /\ ( \/ HandleSend
                          \/ \E c \in CallIds : HandleToolSubmit(c, ManualResult)
                          \/ \E m \in DOMAIN messageMap : HandleRegenerate(m) ))
             => UNCHANGED <<messageMap, headId, modelMsgId, pc>>]_vars
    /\ [][TurnStarts =>
             \/ ~isLoading
             \/ /\ pc = "executing"
                /\ Len(executionQueue) = 1
                /\ Len(Val(messageMap'[nextId].toolResults)) = Len(results) + 1
                /\ messageMap'[modelMsgId'].parentId = nextId]_vars

C8_Witness ==
    /\ isLoading
    /\ pc = "streaming"
    /\ PendingCallIds # {}
    /\ RegenerableIds # {}
    /\ nextId + 1 <= MaxNodes

\* The siblings of a node that has a parent in the mapping
SiblingsOf(m) == messageMap[messageMap[m].parentId].childrenIds

HasParentNode(m) ==
    /\ m \in DOMAIN messageMap
    /\ messageMap[m].parentId # NULL
    /\ messageMap[m].parentId \in DOMAIN messageMap
    /\ IndexOf(SiblingsOf(m), m) # -1

\* The cases in which the claim expects navigateBranch to do nothing
NoMoveCase(m, d) ==
    /\ m \in DOMAIN messageMap
    /\ \/ messageMap[m].parentId = NULL
       \/ /\ HasParentNode(m)
          /\ \/ d = "next" /\ IndexOf(SiblingsOf(m), m) = Len(SiblingsOf(m))
             \/ d = "prev" /\ IndexOf(SiblingsOf(m), m) = 1
             \/ Len(SiblingsOf(m)) = 1

\* C9: navigateBranch leaves head and mapping unchanged for next on the last
\* sibling, prev on the first sibling, a node with no parent and a node that
\* is its parent's only child, whatever the mapping and the current head.
C9_NavigationClampedIsNoOp ==
    [][\A m \in DOMAIN messageMap, d \in Directions :
          (NavigateCall(m, d) /\ NoMoveCase(m, d)) => UNCHANGED <<headId, messageMap>>]_vars

\* The sibling next to m in direction d exists
AdjacentExists(m, d) ==
    /\ HasParentNode(m)
    /\ \/ d = "prev" /\ IndexOf(SiblingsOf(m), m) > 1
       \/ d = "next" /\ IndexOf(SiblingsOf(m), m) < Len(SiblingsOf(m))

AdjacentSibling(m, d) ==
    SiblingsOf(m)[IF d = "prev" THEN IndexOf(SiblingsOf(m), m) - 1
                  ELSE IndexOf(SiblingsOf(m), m) + 1]

\* h is reached from s by taking the last child at every level
RECURSIVE LatestChain(_, _)
LatestChain(h, s) ==
    \/ h = s
    \/ /\ h \in DOMAIN messageMap
       /\ messageMap[h].parentId \in DOMAIN messageMap
       /\ Last(messageMap[messageMap[h].parentId].childrenIds) = h
       /\ LatestChain(messageMap[h].parentId, s)

\* C10: when navigateBranch moves to the adjacent sibling (index i-1 for prev,
\* i+1 for next, within bounds), the mapping is unchanged and the new head is
\* the childless node reached from that sibling through last children only.
C10_NavigationLandsOnLatestLeaf ==
    [][\A m \in DOMAIN messageMap, d \in Directions :
          (NavigateCall(m, d) /\ AdjacentExists(m, d)) =>
              /\ messageMap' = messageMap
              /\ headId' \in DOMAIN messageMap
              /\ messageMap[headId'].childrenIds = <<>>
              /\ LatestChain(headId', AdjacentSibling(m, d))]_vars

C10_Witness ==
    /\ navCall.msgId \in DOMAIN messageMap
    /\ AdjacentExists(navCall.msgId, navCall.direction)
    /\ Len(messageMap[AdjacentSibling(navCall.msgId, navCall.direction)].childrenIds) >= 2
    /\ headId # AdjacentSibling(navCall.msgId, navCall.direction)
    /\ messageMap[headId].childrenIds = <<>>
    /\ LatestChain(headId, AdjacentSibling(navCall.msgId, navCall.direction))

\* C11: importing the document that handleExport wrote, from whatever state
\* the session is in by then, yields the mapping and head that were exported;
\* this includes the export of the fresh session (empty mapping, null head).
C11_ExportImportRoundTrip ==
    download.picked => (messageMap = download.messageMap /\ headId = download.headId)

\* The text deltas of the chunks of a log, concatenated in arrival order
RECURSIVE DeltasOf(_)
DeltasOf(log) ==
    IF log = <<>> THEN <<>>
    ELSE DeltasOf(SubSeq(log, 1, Len(log) - 1))
            \o (IF IsSome(Last(log).textDelta) THEN <<Val(Last(log).textDelta)>> ELSE <<>>)

\* C12: while a turn streams, the published content of the pending node is the
\* concatenation, in arrival order, of the text deltas of the chunks folded so
\* far; every fold publishes the mapping it built; and when the stream ends the
\* content is the concatenation of all deltas.
C12_ContentIsConcatenation ==
    /\ [](pc = "streaming" =>
             /\ modelMsgId \in DOMAIN messageMap
             /\ messageMap[modelMsgId].content = Some(DeltasOf(chunkLog)))
    /\ [][(\E chunk \in Chunks : FoldChunk(chunk)) =>
             /\ messageMap' = currentMap'
             /\ headId' = modelMsgId
             /\ Len(chunkLog') = Len(chunkLog) + 1]_vars
    /\ [][StreamEnds => messageMap'[modelMsgId].content = Some(DeltasOf(chunkLog))]_vars

C12_Witness ==
    /\ pc = "streaming"
    /\ Len(chunkLog) = 2
    /\ messageMap[modelMsgId].content = Some(<<"a", "b">>)

\* C13: in every published state no model node carries toolCalls as an empty
\* sequence: a model node without tool calls has toolCalls absent, the pending
\* placeholder, the node of a zero-chunk turn and the node of a failed turn
\* included.
C13_NoEmptyToolCalls ==
    \A k \in DOMAIN messageMap :
        messageMap[k].role = "model" => messageMap[k].toolCalls # Some(<<>>)

\* A stored result of the form {"error": message}
IsErrorResult(result) ==
    /\ result.t = "string"
    /\ Len(result.v) >= 3
    /\ result.v[1] = "{\"error\":"
    /\ Last(result.v) = "}"

\* The results the step has added to the turn: to the list being collected, or
\* to the tool node appended by the step
ResultsAfterStep ==
    IF nextId \in DOMAIN messageMap' /\ nextId \notin DOMAIN messageMap
    THEN Val(messageMap'[nextId].toolResults)
    ELSE results'

\* C14: when the execution of a tool throws, the failure becomes the result of
\* that call in the form {error: message}; the turn is not aborted (no error
\* text is written into the model node, the remaining queued calls stay
\* queued) and the tool node appended after the last execution holds one result
\* for every queued call.
C14_ToolFailureIsAResult ==
    [][\A outcome \in AllToolOutcomes :
          (~outcome.ok /\ ExecTool(outcome)) =>
              /\ messageMap'[modelMsgId].content = messageMap[modelMsgId].content
              /\ Len(ResultsAfterStep) = Len(results) + 1
              /\ Last(ResultsAfterStep).callId = Head(executionQueue).id
              /\ IsErrorResult(Last(ResultsAfterStep).result)
              /\ IF Len(executionQueue) > 1
                 THEN executionQueue' = Tail(executionQueue) /\ pc' = "executing"
                 ELSE /\ nextId \in DOMAIN messageMap'
                      /\ messageMap'[nextId].role = "tool"
                      /\ Len(Val(messageMap'[nextId].toolResults))
                            = Len(SelectSeq(CallsOf(messageMap[modelMsgId]),
                                            LAMBDA tc : Queued(config, tc)))]_vars

\* C15: whatever an automatically executed tool returns (a string, an object,
\* no value at all), the result stored for the call is a string, and a
\* returned string is stored in its JSON-quoted form, which no object result
\* has.
C15_ResultsAreStrings ==
    [][\A outcome \in AllToolOutcomes :
          (outcome.ok /\ ExecTool(outcome)) =>
              /\ Last(ResultsAfterStep).result.t = "string"
              /\ outcome.value.t = "string" =>
                    Last(ResultsAfterStep).result.v = <<"\"">> \o outcome.value.v \o <<"\"">>
              /\ outcome.value.t = "object" =>
                    Last(ResultsAfterStep).result.v[1] # "\""]_vars

\* The step after which no queued call of the turn is left to execute
ExecutionEnds == pc = "executing" /\ pc' # "executing"

\* The ids of the calls of the finalized model node that the turn executes
QueuedCallIds ==
    LET queue == SelectSeq(CallsOf(currentMap[modelMsgId]), LAMBDA tc : Queued(config, tc))
    IN [i \in 1..Len(queue) |-> queue[i].id]

\* A tool node that is in the mapping after the step and was not before
NewToolNodes ==
    { k \in DOMAIN messageMap' : k \notin DOMAIN messageMap /\ messageMap'[k].role = "tool" }

\* C16: a turn that has executed at least one call appends, when its last
\* execution is over, exactly one tool node: the last child of the finalized
\* model node, with one result per executed call in call order, callId equal
\* to the call's id, and head on it (or on the placeholder of the continuation
\* started from it in the same step).  No other step of a turn appends a tool
\* node; a turn without executable calls ends with no new node and the head
\* where it was.
C16_OneToolNodePerTurn ==
    /\ [][ExecutionEnds =>
             /\ NewToolNodes = {nextId}
             /\ messageMap'[nextId].parentId = modelMsgId
             /\ Last(messageMap'[modelMsgId].childrenIds) = nextId
             /\ LET res == Val(messageMap'[nextId].toolResults)
                IN /\ Len(res) = Len(QueuedCallIds)
                   /\ \A i \in 1..Len(res) : res[i].callId = QueuedCallIds[i]
             /\ \/ headId' = nextId
                \/ /\ messageMap'[headId'].parentId = nextId
                   /\ messageMap'[headId'].role = "model"]_vars
    /\ [][(isLoading /\ ~ExecutionEnds) => NewToolNodes = {}]_vars
    /\ [][(StreamEnds /\ pc' = "idle") =>
             /\ DOMAIN messageMap' = DOMAIN messageMap
             /\ headId' = headId
             /\ QueuedCallIds = <<>>]_vars

\* The stream has ended on a model node of which some calls, not all, are executed
PartialExecution ==
    /\ pc = "executing"
    /\ 0 < Len(QueuedCallIds)
    /\ Len(QueuedCallIds) < Len(CallsOf(currentMap[modelMsgId]))

\* The thread rendered after the step
currentThreadAfter == getThread(messageMap', headId')

\* C17: when only k of the n calls of a model node (0 < k < n) are executed,
\* the end of the execution appends exactly one tool node with k results and no
\* model node, the turn returns, and in the thread rendered afterwards every
\* call of the model node with a result in the tool node is answered and every
\* other call of it is not.
C17_PartialExecutionLeavesPending ==
    [][(PartialExecution /\ ExecutionEnds) =>
          /\ NewToolNodes = {nextId}
          /\ Len(Val(messageMap'[nextId].toolResults)) = Len(QueuedCallIds)
          /\ DOMAIN messageMap' = DOMAIN messageMap \cup {nextId}
          /\ ~isLoading'
          /\ LET thread == currentThreadAfter
                 i == Len(thread) - 1
                 calls == CallsOf(messageMap'[modelMsgId])
                 answered == { QueuedCallIds[j] : j \in 1..Len(QueuedCallIds) }
             IN /\ Len(thread) >= 2
                /\ thread[i].id = modelMsgId
                /\ \A k \in 1..Len(calls) :
                      IsAnswered(thread, i, calls[k]) <=> calls[k].id \in answered]_vars

\* No active model is selected, or the active model has no API key
NoUsableModel(cfg) == ~HasActiveModel(cfg) \/ ~HasApiKey(cfg)

\* C18: while Idle with no active model, or with an active model that has no
\* API key, a send, a manual tool submission or a regenerate adds no model
\* node to the mapping and leaves mapping and head unchanged.
C18_NoTurnWithoutUsableModel ==
    [][(/\ ~isLoading
        /\ NoUsableModel(config)
        /\ \/ HandleSend
           \/ \E c \in PendingCallIds : HandleToolSubmit(c, ManualResult)
           \/ \E m \in RegenerableIds : HandleRegenerate(m))
          => /\ NewModelNodes = {}
             /\ UNCHANGED <<messageMap, headId>>
             /\ ~isLoading']_vars

\* The messages from the root to node h
PathTo(h) == getThread(messageMap, h)

\* The positions below position i of a path holding a result for call id c,
\* one pair <<position, index in toolResults>> per result entry
AnswersBelow(thread, i, c) ==
    { p \in ((i + 1)..Len(thread)) \X (1..2) :
         /\ thread[p[1]].role = "tool"
         /\ IsSome(thread[p[1]].toolResults)
         /\ p[2] <= Len(Val(thread[p[1]].toolResults))
         /\ Val(thread[p[1]].toolResults)[p[2]].callId = c }

\* The positions below position i of a path that answer some call of thread[i]
AnsweringNodes(thread, i) ==
    { j \in (i + 1)..Len(thread) :
         \E k \in 1..Len(CallsOf(thread[i])) :
            \E p \in AnswersBelow(thread, i, CallsOf(thread[i])[k].id) : p[1] = j }

\* C19: on every path from the root to a node, each call id of a model node
\* has at most one result entry below that node, and the results for the calls
\* of one model node are all in one tool node.
C19_OneAnswerPerCall ==
    \A h \in DOMAIN messageMap :
        LET thread == PathTo(h)
        IN \A i \in 1..Len(thread) :
              thread[i].role = "model" =>
                 /\ \A k \in 1..Len(CallsOf(thread[i])) :
                       Cardinality(AnswersBelow(thread, i, CallsOf(thread[i])[k].id)) <= 1
                 /\ Cardinality(AnsweringNodes(thread, i)) <= 1

\* C20: a manual submission of a result for a pending call, made while Idle,
\* adds exactly two nodes: a tool node whose toolResults is the single entry
\* {callId, result}, appended as the last child of the head, and the pending
\* model node of a new turn started from that tool node, which becomes head.
\* Nothing else in the mapping changes, and this is so whether or not other
\* calls of the same model node are still unanswered.
C20_ManualSubmissionStartsTurn ==
    [][\A c \in CallIds :
          (~isLoading /\ c \in PendingCallIds /\ HandleToolSubmit(c, ManualResult)) =>
             /\ DOMAIN messageMap' = DOMAIN messageMap \cup {nextId, nextId + 1}
             /\ NewToolNodes = {nextId}
             /\ messageMap'[nextId].toolResults = Some(<<ToolResult(c, ManualResult)>>)
             /\ messageMap'[nextId].parentId = headId
             /\ messageMap'[headId].childrenIds = Append(messageMap[headId].childrenIds, nextId)
             /\ \A k \in DOMAIN messageMap \ {headId} : messageMap'[k] = messageMap[k]
             /\ NewModelNodes = {nextId + 1}
             /\ messageMap'[nextId + 1].parentId = nextId
             /\ messageMap'[nextId].childrenIds = <<nextId + 1>>
             /\ headId' = nextId + 1
             /\ isLoading'
             /\ pc' = "open"
             /\ Last(historyForApi').id = nextId]_vars

\* A submission for c1 has started a turn while c2 of the same model node is unanswered
C20_Witness ==
    /\ pc = "open"
    /\ headId = modelMsgId
    /\ messageMap[modelMsgId].parentId \in DOMAIN messageMap
    /\ LET t == messageMap[messageMap[modelMsgId].parentId]
       IN /\ t.role = "tool"
          /\ t.toolResults = Some(<<ToolResult("c1", ManualResult)>>)
          /\ t.parentId \in DOMAIN messageMap
          /\ Len(CallsOf(messageMap[t.parentId])) = 2
    /\ "c2" \in PendingCallIds

\* A data line whose payload JSON.parse rejects
MalformedDataLine(line) ==
    /\ StartsWithData(Trim(line))
    /\ Trim(line) # <<DATA, DONE>>
    /\ ~IsJSON(Tail(Trim(line)))

\* C21: the step of the OpenAI streamer that takes up a data line whose
\* payload is not valid JSON yields no chunk, does not end the stream and
\* leaves the accumulated tool calls and the buffer as they were, so that what
\* the later lines produce is what they produce without that line.
C21_MalformedLineSkipped ==
    [][(LineStep /\ MalformedDataLine(Head(stream.lines))) =>
          /\ stream'.out = stream.out
          /\ stream'.calls = stream.calls
          /\ stream'.buffer = stream.buffer
          /\ ~stream'.ended
          /\ stream'.lines = Tail(stream.lines)]_vars

\* A malformed line between the two argument fragments of a call: the snapshot
\* emitted after it holds the decoded arguments
C21_Witness ==
    /\ stream.provider = "openai"
    /\ \E i \in 1..Len(stream.log) : MalformedDataLine(stream.log[i])
    /\ stream.out # <<>>
    /\ IsSome(Last(stream.out).toolCalls)
    /\ Val(Last(stream.out).toolCalls)[1].args = ObjVal(<<ArgOpen, ArgClose>>)
    /\ MalformedDataLine(stream.log[Len(stream.log) - 1])

\* The tool-call fragments a line delivers: those of its delta when the line
\* is a data line with a JSON payload that has a delta with tool_calls
FragmentsOf(line) ==
    LET trimmed == Trim(line)
    IN IF /\ StartsWithData(trimmed)
          /\ trimmed # <<DATA, DONE>>
          /\ IsJSON(Tail(trimmed))
          /\ JSONparse(Tail(trimmed)).choices = "delta"
          /\ IsSome(JSONparse(Tail(trimmed)).tool_calls)
       THEN Val(JSONparse(Tail(trimmed)).tool_calls)
       ELSE <<>>

\* The argument fragments received for an index, joined in arrival order
RECURSIVE ArgsInFragments(_, _)
ArgsInFragments(fragments, index) ==
    IF fragments = <<>> THEN <<>>
    ELSE (IF Head(fragments).index = index THEN Head(fragments).arguments ELSE <<>>)
         \o ArgsInFragments(Tail(fragments), index)

RECURSIVE ArgsReceived(_, _)
ArgsReceived(log, index) ==
    IF log = <<>> THEN <<>>
    ELSE ArgsInFragments(FragmentsOf(Head(log)), index) \o ArgsReceived(Tail(log), index)

\* The indexes for which a fragment has been received
IndexesReceived(log) ==
    { FragmentsOf(log[i])[j].index :
         <<i, j>> \in { p \in (1..Len(log)) \X (1..2) : p[2] <= Len(FragmentsOf(log[p[1]])) } }

\* The accumulated text is a complete JSON text
CompleteArgs(args) == args \in { <<ArgWhole>>, <<ArgOpen, ArgClose>> }

\* C22: in the OpenAI streamer the text accumulated for a tool-call index is
\* the concatenation, in arrival order, of the argument fragments received for
\* that index, with one record per index; the line that delivers a delta with
\* tool calls is followed by a snapshot as the last chunk, one entry per index,
\* whose args are the decoded accumulated text when that is complete JSON and
\* the empty object otherwise.
C22_ArgumentsAccumulate ==
    /\ [](stream.provider = "openai" =>
             /\ { stream.calls[i].index : i \in 1..Len(stream.calls) } = IndexesReceived(stream.log)
             /\ \A i, j \in 1..Len(stream.calls) :
                   stream.calls[i].index = stream.calls[j].index => i = j
             /\ \A i \in 1..Len(stream.calls) :
                   stream.calls[i].args = ArgsReceived(stream.log, stream.calls[i].index))
    /\ [][(LineStep /\ FragmentsOf(Head(stream.lines)) # <<>>) =>
             /\ Len(stream'.out) > Len(stream.out)
             /\ IsSome(Last(stream'.out).toolCalls)
             /\ LET snap == Val(Last(stream'.out).toolCalls)
                IN /\ Len(snap) = Len(stream'.calls)
                   /\ \A i \in 1..Len(snap) :
                         LET args == ArgsReceived(stream'.log, stream'.calls[i].index)
                         IN snap[i].args = IF CompleteArgs(args) THEN ObjVal(args)
                                           ELSE ObjVal(<<ArgWhole>>)]_vars

\* The snapshot after the first fragment has the empty object, the one after
\* the second fragment the decoded arguments
C22_Witness ==
    /\ stream.provider = "openai"
    /\ Len(stream.out) = 2
    /\ IsSome(stream.out[1].toolCalls)
    /\ Val(stream.out[1].toolCalls)[1].args = ObjVal(<<ArgWhole>>)
    /\ IsSome(stream.out[2].toolCalls)
    /\ Val(stream.out[2].toolCalls)[1].args = ObjVal(<<ArgOpen, ArgClose>>)

\* The line begins with the data prefix
BeginsWithData(line) == line # <<>> /\ Head(line) = DATA

\* The line is the terminal sentinel, white space around it aside
SentinelLine(line) == Trim(line) = <<DATA, DONE>>

\* C23 as stated: a line that does not begin with the data prefix emits
\* nothing, and once the sentinel line has been read the stream has ended and
\* nothing is emitted any more.
C23_OnlyDataLinesUntilSentinel ==
    /\ [][(LineStep /\ ~BeginsWithData(Head(stream.lines))) => stream'.out = stream.out]_vars
    /\ [][(LineStep /\ SentinelLine(Head(stream.lines))) =>
             (stream'.ended /\ stream'.out = stream.out)]_vars
    /\ [][(stream.provider = "openai" /\ stream.ended) => stream'.out = stream.out]_vars

\* C23, amended: a line that does not begin with the data prefix once the
\* white space around it is removed emits nothing, and once the sentinel line
\* has been read the stream has ended and nothing is emitted any more, whatever
\* lines follow in the same read.
C23_OnlyTrimmedDataLinesUntilSentinel ==
    /\ [][(LineStep /\ ~StartsWithData(Trim(Head(stream.lines)))) =>
             (stream'.out = stream.out /\ stream'.calls = stream.calls /\ ~stream'.ended)]_vars
    /\ [][(LineStep /\ SentinelLine(Head(stream.lines))) =>
             (stream'.ended /\ stream'.out = stream.out)]_vars
    /\ [][(stream.provider = "openai" /\ stream.ended) => stream'.out = stream.out]_vars
    /\ [](stream.provider = "openai" =>
             \A i \in 1..(Len(stream.log) - 1) : ~SentinelLine(stream.log[i]))

\* The sentinel has ended the stream with a data line of the same read left
C23_Witness ==
    /\ stream.provider = "openai"
    /\ stream.ended
    /\ stream.log # <<>>
    /\ SentinelLine(Last(stream.log))
    /\ stream.lines # <<>>
    /\ \E i \in 1..Len(stream.log) : ~StartsWithData(Trim(stream.log[i]))

\* The positions of the emitted chunks that carry tool calls
SnapshotChunks == { i \in 1..Len(stream.out) : IsSome(stream.out[i].toolCalls) }

\* C24: of two chunks of one stream that carry tool calls, the later one holds
\* at every position of the earlier one the call the earlier one holds there
\* (the same id, once the id is known), so that the latest snapshot holds every
\* call reported before it.
C24_SnapshotsAreCumulative ==
    \A i, j \in SnapshotChunks :
        i < j =>
           LET earlier == Val(stream.out[i].toolCalls)
               later == Val(stream.out[j].toolCalls)
           IN /\ Len(later) >= Len(earlier)
              /\ \A k \in 1..Len(earlier) :
                    earlier[k].id # "" => later[k].id = earlier[k].id

\* The names of the registered tools whose active flag is true, in registration order
RECURSIVE ActiveNames(_)
ActiveNames(tools) ==
    IF tools = <<>> THEN <<>>
    ELSE (IF Head(tools).active THEN <<Head(tools).name>> ELSE <<>>) \o ActiveNames(Tail(tools))

\* C25: a request built for either provider declares exactly the registered
\* tools whose active flag is true, in registration order; when no tool is
\* active the OpenAI body has no tools key and the Gemini arguments have
\* config.tools undefined, never an empty list.
C25_ActiveToolsDeclared ==
    (request.built /\ request.threw = "") =>
        LET names == ActiveNames(config.tools)
        IN IF request.provider = "openai"
           THEN IF names = <<>> THEN "tools" \notin DOMAIN request.body
                ELSE /\ "tools" \in DOMAIN request.body
                     /\ request.body.tools =
                           [i \in 1..Len(names) |->
                               [type |-> "function", function |-> [name |-> names[i]]]]
           ELSE IF names = <<>> THEN request.body.config.tools = None
                ELSE request.body.config.tools =
                        Some(<< [functionDeclarations |->
                                    [i \in 1..Len(names) |-> [name |-> names[i]]]] >>)

\* A request with one declaration, built while an inactive tool is registered before the active one
C25_Witness ==
    /\ request.built
    /\ request.threw = ""
    /\ Len(config.tools) = 2
    /\ ~config.tools[1].active
    /\ config.tools[2].active
    /\ request.provider = "openai"
    /\ Len(request.body.tools) = 1

C27_ThreadWalkVisitsOnce == Len(walk.thread) <= Cardinality(DOMAIN messageMap)

\* The heads a turn can start from in a step: the node the entry point has
\* just appended (send, manual submission, continuation), or the parent of a
\* regenerated message.
StartHeads ==
    IF nextId' = nextId + 2 THEN {nextId}
    ELSE { messageMap[m].parentId : m \in RegenerableIds }

\* The pending node of the turn is published under h: a model node with empty
\* content, child of h, last among h's children, and head.
PendingPublished(h) ==
    /\ modelMsgId \in DOMAIN messageMap
    /\ headId = modelMsgId
    /\ messageMap[modelMsgId].role = "model"
    /\ messageMap[modelMsgId].content = Some(<<>>)
    /\ messageMap[modelMsgId].parentId = h
    /\ h \in DOMAIN messageMap
    /\ messageMap[h].childrenIds # <<>>
    /\ Last(messageMap[h].childrenIds) = modelMsgId

\* C28: the step that starts a turn from head h publishes a new model node with
\* empty content and parentId h, last in h's childrenIds and head, and the
\* stream is opened only afterwards, from that published state.
C28_PendingNodePublishedFirst ==
    /\ [][TurnStarts => /\ modelMsgId' \notin DOMAIN messageMap
                        /\ pc' = "open"
                        /\ \E h \in StartHeads : PendingPublished(h)']_vars
    /\ [][pc' = "streaming" /\ pc # "streaming" =>
             pc = "open" /\ PendingPublished(messageMap[modelMsgId].parentId)]_vars

C28_Witness ==
    /\ pc = "streaming"
    /\ chunkLog = <<>>
    /\ PendingPublished(messageMap[modelMsgId].parentId)
    /\ messageMap[messageMap[modelMsgId].parentId].role = "tool"

\* history is the root-first thread of map that ends at h: it starts at a root,
\* every element is the stored node and the parent of the next one, and the
\* last element is h.
IsThreadEndingAt(history, map, h) ==
    /\ history # <<>>
    /\ history[1].parentId = NULL
    /\ Last(history).id = h
    /\ \A i \in 1..Len(history) :
          /\ history[i].id \in DOMAIN map
          /\ history[i] = map[history[i].id]
    /\ \A i \in 1..(Len(history) - 1) : history[i + 1].parentId = history[i].id

\* C29: the history a turn hands to the adapter is the root-first thread that
\* ends at the pre-turn head; the pending model node of the turn is not in it;
\* in a continuation its last element is the tool node just appended, which
\* holds the results of the executions; the stream is opened with that history.
C29_HistoryEndsAtPreTurnHead ==
    /\ [][TurnStarts =>
             /\ \E h \in StartHeads : IsThreadEndingAt(historyForApi', messageMap', h)
             /\ \A i \in 1..Len(historyForApi') : historyForApi'[i].id # modelMsgId'
             /\ pc = "executing" =>
                   /\ Last(historyForApi').id = nextId
                   /\ Last(historyForApi').role = "tool"
                   /\ IsSome(Last(historyForApi').toolResults)
                   /\ Len(Val(Last(historyForApi').toolResults)) = Len(results) + 1]_vars
    /\ [][pc = "open" /\ pc' = "streaming" => historyForApi' = historyForApi]_vars

C29_Witness ==
    /\ pc = "streaming"
    /\ Len(historyForApi) = 3
    /\ historyForApi[1].role = "user"
    /\ historyForApi[2].role = "model"
    /\ historyForApi[3].role = "tool"
    /\ historyForApi[3].toolResults =
          Some(<<ToolResult("c1", JSONstringify(StrVal(<<"sunny">>)))>>)
    /\ modelMsgId \in DOMAIN messageMap
    /\ messageMap[modelMsgId].parentId = historyForApi[3].id

\* The call ids of a sequence of results, and of a sequence of calls
ResultIds(res) == [i \in 1..Len(res) |-> res[i].callId]

CallIdsOf(calls) == [i \in 1..Len(calls) |-> calls[i].id]

\* C30: the executable calls of a turn are executed one at a time in the order
\* of the model node's toolCalls: the results collected so far followed by the
\* calls still waiting are the executable calls in that order, every step of
\* the loop executes the first waiting call only and stores its result behind
\* the earlier ones, and the tool node holds the results in that order.
C30_ExecutionInCallOrder ==
    /\ [](pc = "executing" =>
             ResultIds(results) \o CallIdsOf(executionQueue) = QueuedCallIds)
    /\ [][pc = "executing" /\ pc' = "executing" /\ results' # results =>
             /\ Len(results') = Len(results) + 1
             /\ SubSeq(results', 1, Len(results)) = results
             /\ Last(results').callId = Head(executionQueue).id
             /\ executionQueue' = Tail(executionQueue)]_vars
    /\ [][\A k \in NewToolNodes : pc = "executing" =>
             ResultIds(Val(messageMap'[k].toolResults)) = QueuedCallIds]_vars

C30_Witness ==
    /\ pc = "executing"
    /\ ResultIds(results) = <<"c1">>
    /\ CallIdsOf(executionQueue) = <<"c2">>
    /\ results[1].result = JSONstringify(ErrorObject(StrVal(<<"boom">>)))

\* s is a prefix of t
IsPrefixOf(s, t) == Len(s) <= Len(t) /\ SubSeq(t, 1, Len(s)) = s

\* C31: from the placeholder to the end of the turn, on every path, the content
\* of the pending node in one published state is a prefix of its content in
\* the next published state.
C31_PendingContentOnlyGrows ==
    [][(/\ modelMsgId \in DOMAIN messageMap
        /\ modelMsgId \in DOMAIN messageMap') =>
          IsPrefixOf(Val(messageMap[modelMsgId].content),
                     Val(messageMap'[modelMsgId].content))]_vars

\* The nearest model node above node k, NULL when there is none
RECURSIVE NearestModelAbove(_, _)
NearestModelAbove(map, k) ==
    LET p == map[k].parentId
    IN IF p = NULL \/ p \notin DOMAIN map THEN NULL
       ELSE IF map[p].role = "model" THEN p
       ELSE NearestModelAbove(map, p)

\* C32: every callId held by a tool node is the id of a tool call of the
\* nearest model node above that tool node.
C32_ResultsAnswerNearestModel ==
    \A k \in DOMAIN messageMap :
        (messageMap[k].role = "tool" /\ IsSome(messageMap[k].toolResults)) =>
            LET m == NearestModelAbove(messageMap, k)
                res == Val(messageMap[k].toolResults)
            IN /\ m # NULL
               /\ \A i \in 1..Len(res) :
                     \E j \in 1..Len(CallsOf(messageMap[m])) :
                        CallsOf(messageMap[m])[j].id = res[i].callId

\* The fields of a node that are history once written
SameHistory(a, b) ==
    /\ a.id = b.id
    /\ a.role = b.role
    /\ a.content = b.content
    /\ a.toolCalls = b.toolCalls
    /\ a.toolResults = b.toolResults
    /\ a.parentId = b.parentId

\* C33: in every step every node other than the pending node of the turn in
\* flight keeps id, role, content, toolCalls, toolResults and parentId, so the
\* nodes of completed turns are never rewritten; while the turn streams its
\* pending node keeps id, role, parentId and childrenIds, and no other node
\* changes at all.
C33_OnlyPendingNodeMutable ==
    /\ [][\A k \in DOMAIN messageMap :
             k # modelMsgId =>
                k \in DOMAIN messageMap' /\ SameHistory(messageMap[k], messageMap'[k])]_vars
    /\ [][(pc = "streaming" /\ modelMsgId \in DOMAIN messageMap') =>
             /\ messageMap'[modelMsgId].id = messageMap[modelMsgId].id
             /\ messageMap'[modelMsgId].role = messageMap[modelMsgId].role
             /\ messageMap'[modelMsgId].parentId = messageMap[modelMsgId].parentId
             /\ messageMap'[modelMsgId].childrenIds = messageMap[modelMsgId].childrenIds
             /\ \A k \in DOMAIN messageMap \ {modelMsgId} : messageMap'[k] = messageMap[k]]_vars

\* A second turn streams text next to the finished answer of an earlier turn
C33_Witness ==
    /\ pc = "streaming"
    /\ messageMap[modelMsgId].content = Some(<<"b">>)
    /\ \E k \in DOMAIN messageMap \ {modelMsgId} :
          /\ messageMap[k].role = "model"
          /\ messageMap[k].content = Some(<<"a">>)

\* C34: under every operation other than import a node of the published
\* mapping stays in it, and its childrenIds before a step is a prefix of its
\* childrenIds after the step: children are appended, never removed or reordered.
C34_NodesAndChildrenOnlyAdded ==
    [][\A k \in DOMAIN messageMap :
          /\ k \in DOMAIN messageMap'
          /\ IsPrefixOf(messageMap[k].childrenIds, messageMap'[k].childrenIds)]_vars

\* A regenerated answer stands behind the first one among the children of the
\* user message, while the head was moved back to the first
C34_Witness ==
    \E k \in DOMAIN messageMap :
        /\ Len(messageMap[k].childrenIds) = 2
        /\ headId = messageMap[k].childrenIds[1]
        /\ ~isLoading

\* The links a step adds are there in both directions afterwards: a new node
\* with a parentId is listed by that parent, and a child added to a node's
\* childrenIds is a node naming it as parent.
AddedLinksConsistent ==
    /\ \A k \in DOMAIN messageMap' \ DOMAIN messageMap :
          messageMap'[k].parentId # NULL =>
             /\ messageMap'[k].parentId \in DOMAIN messageMap'
             /\ \E i \in 1..Len(messageMap'[messageMap'[k].parentId].childrenIds) :
                   messageMap'[messageMap'[k].parentId].childrenIds[i] = k
    /\ \A k \in DOMAIN messageMap \cap DOMAIN messageMap' :
          \A i \in (Len(messageMap[k].childrenIds) + 1)..Len(messageMap'[k].childrenIds) :
             /\ messageMap'[k].childrenIds[i] \in DOMAIN messageMap'
             /\ messageMap'[messageMap'[k].childrenIds[i]].parentId = k

\* C35: every state published by send, manual submission, regenerate, turn
\* processing or navigation has its head among the keys of the mapping, and
\* every link the operation added is present in both directions.
C35_PublishedStateConsistent ==
    [][<<messageMap, headId>>' # <<messageMap, headId>> =>
          /\ headId' \in DOMAIN messageMap'
          /\ AddedLinksConsistent]_vars

\* C36: Regenerate on a message m with parent p, made while Idle, adds one
\* node: a model node that is the last child of p and the head, the pending
\* node of a turn started from p; m, its subtree and every other node but p
\* are as before and p's earlier children keep their places.  Regenerate on an
\* unknown message or on one without a parent changes nothing.
C36_RegenerateBranchesFromParent ==
    [][\A m \in {navCall'.msgId} :
          (navCall'.direction = "regenerate" /\ RegenerateCall(m)) =>
             IF /\ ~isLoading
                /\ m \in DOMAIN messageMap
                /\ messageMap[m].parentId \in DOMAIN messageMap
             THEN LET p == messageMap[m].parentId
                  IN /\ DOMAIN messageMap' = DOMAIN messageMap \cup {nextId}
                     /\ nextId \notin DOMAIN messageMap
                     /\ messageMap'[nextId].role = "model"
                     /\ messageMap'[nextId].parentId = p
                     /\ messageMap'[nextId].childrenIds = <<>>
                     /\ messageMap'[p].childrenIds = Append(messageMap[p].childrenIds, nextId)
                     /\ SameHistory(messageMap[p], messageMap'[p])
                     /\ \A k \in DOMAIN messageMap \ {p} : messageMap'[k] = messageMap[k]
                     /\ headId' = nextId
                     /\ modelMsgId' = nextId
                     /\ pc' = "open"
                     /\ Last(historyForApi').id = p
             ELSE UNCHANGED varsButCall]_vars

\* An answer that has a tool node below it was regenerated: the new pending
\* node stands behind it under the same parent
C36_Witness ==
    /\ navCall.direction = "regenerate"
    /\ pc = "open"
    /\ navCall.msgId \in DOMAIN messageMap
    /\ LET m == messageMap[navCall.msgId]
       IN /\ m.role = "model"
          /\ m.childrenIds # <<>>
          /\ messageMap[m.parentId].childrenIds = <<m.id, modelMsgId>>
          /\ headId = modelMsgId

\* The i-th ancestor of node k (k itself for i = 0), NULL past a root or a
\* missing node
RECURSIVE Up(_, _, _)
Up(map, k, i) ==
    IF i = 0 THEN k
    ELSE IF k = NULL \/ k \notin DOMAIN map THEN NULL
    ELSE Up(map, map[k].parentId, i - 1)

\* map is a chain of the n messages in array order that ends at head: n
\* distinct nodes, each the only child of the one before, the first a root,
\* the j-th holding the j-th message
IsChainOf(map, head, messages) ==
    LET n == Len(messages)
        at(j) == Up(map, head, n - j)
    IN /\ Cardinality(DOMAIN map) = n
       /\ IF n = 0 THEN head = NULL
          ELSE /\ \A j \in 1..n :
                     /\ at(j) \in DOMAIN map
                     /\ map[at(j)].id = at(j)
                     /\ map[at(j)].content = Some(messages[j].content)
                     /\ messages[j].id # NULL => at(j) = messages[j].id
                     /\ map[at(j)].childrenIds = IF j < n THEN <<at(j + 1)>> ELSE <<>>
               /\ \A i, j \in 1..n : i # j => at(i) # at(j)
               /\ map[at(1)].parentId = NULL

\* C37: the import of a legacy file of n messages, whatever ids they carry,
\* leaves a mapping that is a chain of n nodes in array order, acyclic and
\* linked in both directions, with the head on the last message.
C37_LegacyImportIsChain ==
    [][\A file \in LegacyFiles :
          ImportCall(file) => IsChainOf(messageMap', headId', file.messages)]_vars

\* C38: the step in which the stream of a turn fails ends the turn: nothing is
\* queued or executed, no node is added, the turn is over and no other is
\* started, and the only change to the mapping is the content of the pending
\* node of the failing turn, also when that turn is a continuation and its last
\* snapshot held executable calls.  A tool is executed only in a turn whose
\* stream has ended without failure.
C38_FailedTurnDispatchesNothing ==
    /\ [][TurnFails =>
             /\ pc' = "idle"
             /\ ~isLoading'
             /\ executionQueue' = <<>>
             /\ modelMsgId' = NULL
             /\ nextId' = nextId
             /\ DOMAIN messageMap' = DOMAIN messageMap
             /\ \A k \in DOMAIN messageMap \ {modelMsgId} : messageMap'[k] = messageMap[k]
             /\ messageMap' = [messageMap EXCEPT ![modelMsgId].content =
                                                    messageMap'[modelMsgId].content]]_vars
    /\ [][(pc' = "executing" /\ pc # "executing") =>
             (pc = "streaming" /\ StreamEnd /\ ~TurnFails)]_vars

\* A continuation failed after a snapshot with an executable call: the error
\* is in its node, which has no tool node below it, and the earlier answer and
\* its tool node are as they were
C38_Witness ==
    /\ ~isLoading
    /\ headId \in DOMAIN messageMap
    /\ IsErrorText(messageMap[headId].content)
    /\ messageMap[headId].toolCalls = Some(S12)
    /\ messageMap[headId].childrenIds = <<>>
    /\ messageMap[headId].parentId \in DOMAIN messageMap
    /\ LET t == messageMap[messageMap[headId].parentId]
       IN /\ t.role = "tool"
          /\ t.childrenIds = <<headId>>
          /\ IsSome(t.toolResults)
          /\ messageMap[t.parentId].role = "model"
          /\ messageMap[t.parentId].toolCalls = Some(S1)
          /\ ~IsErrorText(messageMap[t.parentId].content)

\* The loop body applied to the lines of a text one after the other, up to the
\* sentinel
RECURSIVE FoldLines(_, _)
FoldLines(st, lines) ==
    IF lines = <<>> \/ st.ended THEN st
    ELSE FoldLines(ProcessLine(st, Head(lines)), Tail(lines))

\* What the response text as a whole asks for: every line of it, the last one
\* included, processed in order up to the sentinel
ChunksOfText(text) == FoldLines(OpenAIStream, SplitLines(text, <<>>, <<>>)).out

\* C39: when the streamer has returned, the chunks it has emitted are those of
\* the response text as a whole, whatever the reads were that delivered it:
\* every data line of the text before the sentinel or the end of the stream
\* was processed, in order.
C39_OutputIndependentOfReads ==
    (stream.provider = "openai" /\ stream.ended) => stream.out = ChunksOfText(stream.text)

====
